---- MODULE Spec2Model ----
(***************************************************************************)
(* A model of ajk77/patientpy:                                             *)
(*   src/assemble_feature_matrix.py      the Matrix Assembler              *)
(*   src/InstantiateExperimentDriver.py  imputation, the Sample Indexer,   *)
(*                                       and the per-target trainer        *)
(* Every stage is a batch function invoked on its own with file-path       *)
(* parameters, so every stage has its own specification over the shared    *)
(* variables: SpecAssemble, SpecImpute, SpecIndexer, SpecTraining.         *)
(* numpy arrays are modelled by their shape (a tuple of dimensions) and,   *)
(* where a claim needs it, by the provenance of their columns.             *)
(***************************************************************************)
EXTENDS Integers, Sequences, FiniteSets, TLC

\* ------------------------------------------------------------------------
\* Bounds of the model
\* ------------------------------------------------------------------------
MaxTypes == 2
MaxFiles == 3
MaxCols == 2
MaxAdditional == 1
MaxMatch == 1
ImpCols == 3
MaxTargets == 2
MaxSelRows == 2

\* Row counts of a data file: a single case, two cases, the ten cases of the
\* end-to-end scenario.
RowChoices == {1, 2, 10}
TypeKinds == {"demo", "labs"}

VARIABLES
    \* assemble_feature_matrix
    asm_pc,        \* "run" | "done" | "raised"
    asm_in,        \* the call's arguments and the feature directory's content
    asm_idx,       \* [type |-> types processed, add |-> additional features processed]
    full_data,     \* local full_data
    full_names,    \* local full_names
    saved,         \* the files np.save has written: <<>> or <<[data, names]>>
    \* determine_feature_matrix_and_target_matrix_rows
    idx_pc,        \* "start" | "open" | "done" | "raised"
    idx_in,        \* the content of the files the params name
    t_idx,         \* targets processed by the loop over target_feature_columns
    feature_samples_outfile,        \* lines written, in order
    target_samples_outfile,
    feat_and_targ_samples_outfile,
    \* imputation
    imp_pc,        \* the statement imputation() is at, "done" or "raised"
    imp_in,        \* the matrices the params name, and params['unit_testing']
    imp_loc,       \* the local variables of imputation()
    r_imputer,     \* the RegressiveImputer object
    m_imputer,     \* the median Imputer object
    imp_calls,     \* the fit / transform calls made so far, in order
    imp_files,     \* the files imputation() has written
    \* run_three_model_training
    trn_pc,        \* "start" | "loop" | "done" | "raised"
    trn_in,        \* the content of the files the params name
    trn_loc,       \* what the function loads before its loop
    key_idx,       \* keys of full_keys processed by the loop
    scores,        \* local scores of the last iteration
    clf,           \* what each of the three classifier objects was last fit on
    model_types_out,      \* [state, lines] of model_types.txt
    predictions_out,      \* [state, lines] of predictions_out.txt
    probabilities_out,    \* [state, lines] of probabilities_out.txt
    \* run_feature_selection
    fs_pc,         \* "start" | "inverse" | "filter" | "mImp" | "rImp" | "done" | "raised"
    fs_in,         \* the content of the files the params name
    fs_loc,        \* the local variables of run_feature_selection
    fs_next,       \* items Parallel has taken from the generator of the fan-out
    fs_submitted,  \* the tasks submitted so far, in order
    fs_running,    \* the tasks in the pool that have not returned
    fs_written,    \* the writes of output files made by tasks
    \* load_feature_selection_files
    sel_pc,        \* "start" | "done" | "raised"
    sel_in,        \* the rows of the -mImp.txt and of the -rImp.txt file
    sel_out        \* the feature_dir returned

asm_vars == <<asm_pc, asm_in, asm_idx, full_data, full_names, saved>>
idx_vars == <<idx_pc, idx_in, t_idx, feature_samples_outfile, target_samples_outfile,
              feat_and_targ_samples_outfile>>
imp_vars == <<imp_pc, imp_in, imp_loc, r_imputer, m_imputer, imp_calls, imp_files>>
trn_vars == <<trn_pc, trn_in, trn_loc, key_idx, scores, clf, model_types_out, predictions_out,
              probabilities_out>>
fs_vars == <<fs_pc, fs_in, fs_loc, fs_next, fs_submitted, fs_running, fs_written>>
sel_vars == <<sel_pc, sel_in, sel_out>>
vars == <<asm_vars, idx_vars, imp_vars, trn_vars, fs_vars, sel_vars>>

\* What a stage leaves alone: the variables of the other stages.
asm_rest == <<idx_vars, imp_vars, trn_vars, fs_vars, sel_vars>>
idx_rest == <<asm_vars, imp_vars, trn_vars, fs_vars, sel_vars>>
imp_rest == <<asm_vars, idx_vars, trn_vars, fs_vars, sel_vars>>
trn_rest == <<asm_vars, idx_vars, imp_vars, fs_vars, sel_vars>>
fs_rest == <<asm_vars, idx_vars, imp_vars, trn_vars, sel_vars>>
sel_rest == <<asm_vars, idx_vars, imp_vars, trn_vars, fs_vars>>

\* ------------------------------------------------------------------------
\* numpy values
\* ------------------------------------------------------------------------
\* An n-dimensional array, by shape.
NdArray(shape) == [tag |-> "ndarray", shape |-> shape]
\* The Python int 0 that full_data and full_names start as.
Int0 == [tag |-> "int", shape |-> <<>>]
\* Python None (all_data and all_names of a directory without files).
None == [tag |-> "None", shape |-> <<>>]

\* A 1-D array of unicode names.
NameArray(items) == [tag |-> "ndarray", items |-> items]
NameInt0 == [tag |-> "int", items |-> <<>>]
NameNone == [tag |-> "None", items |-> <<>>]

\* np.genfromtxt(..., delimiter=','): the result is squeezed, so a one-column
\* or one-row file loads as a 1-D array and a single value as a 0-d array.
GenfromtxtShape(rows, cols) ==
    IF rows = 1 /\ cols = 1 THEN <<>>
    ELSE IF rows = 1 THEN <<cols>>
    ELSE IF cols = 1 THEN <<rows>>
    ELSE <<rows, cols>>

\* np.concatenate((a, b), axis): [ok, shape]; ok = FALSE is the ValueError /
\* AxisError numpy raises (a non-array or 0-d operand, different numbers of
\* dimensions, an axis out of bounds, or a mismatch off the axis).
NpConcatenate(a, b, axis) ==
    IF a.tag # "ndarray" \/ b.tag # "ndarray"
       \/ Len(a.shape) = 0 \/ Len(b.shape) = 0
       \/ Len(a.shape) # Len(b.shape)
       \/ axis + 1 > Len(a.shape)
       \/ \E d \in 1..Len(a.shape) : d # axis + 1 /\ a.shape[d] # b.shape[d]
    THEN [ok |-> FALSE, shape |-> <<>>]
    ELSE [ok |-> TRUE,
          shape |-> [d \in 1..Len(a.shape) |->
                        IF d = axis + 1 THEN a.shape[d] + b.shape[d] ELSE a.shape[d]]]

\* np.concatenate((f_names, l_names), axis=0) on name arrays.
NpConcatenateNames(a, b) ==
    IF a.tag # "ndarray" \/ b.tag # "ndarray"
    THEN [ok |-> FALSE, items |-> <<>>]
    ELSE [ok |-> TRUE, items |-> a.items \o b.items]

\* ------------------------------------------------------------------------
\* assemble_feature_matrix.concat
\* ------------------------------------------------------------------------
ConcatResult(ok, data, names) == [ok |-> ok, data |-> data, names |-> names]

concat(c_idx, f_data, f_names, l_data, l_names) ==
    IF c_idx = 0 THEN ConcatResult(TRUE, l_data, l_names)
    ELSE LET axis == IF Len(l_data.shape) = 2 THEN 1 ELSE 0
             d == NpConcatenate(f_data, l_data, axis)
             n == NpConcatenateNames(f_names, l_names)
         IN IF d.ok /\ n.ok
            THEN ConcatResult(TRUE, NdArray(d.shape), NameArray(n.items))
            ELSE ConcatResult(FALSE, f_data, f_names)

\* ------------------------------------------------------------------------
\* assemble_feature_matrix.load_dir
\* ------------------------------------------------------------------------
\* A feature type of the directory: its kind, the number of files in
\* <kind>_feature_files/, and the rows and columns of each file.  The
\* <kind>_feature_columns.txt file has one name per column (note [1] of the
\* module docstring).
TypeDescs == [kind : TypeKinds, nfiles : 0..MaxFiles, rows : RowChoices, cols : 1..MaxCols]

\* x + '_' + filename[:-4] for every x of var_names.
FileNames(t, k) == [v \in 1..t.cols |-> <<t.kind, v, k>>]

\* The loop of load_dir from file k on.
RECURSIVE LoadDirFrom(_, _, _)
LoadDirFrom(t, k, acc) ==
    IF ~acc.ok \/ k > t.nfiles THEN acc
    ELSE LoadDirFrom(t, k + 1,
            concat(k - 1, acc.data, acc.names,
                   NdArray(GenfromtxtShape(t.rows, t.cols)), NameArray(FileNames(t, k))))

load_dir(t) == LoadDirFrom(t, 1, ConcatResult(TRUE, None, NameNone))

\* ------------------------------------------------------------------------
\* assemble_feature_matrix: the arguments
\* ------------------------------------------------------------------------
SeqsUpTo(S, n) == UNION {[1..k -> S] : k \in 0..n}

\* An additional feature is one file of one column (it is reshaped to
\* (rows, 1)) with a one-line columns file.
AddDescs == [rows : RowChoices]
AddNames(j) == <<<<"additional", 1, j>>>>

\* Names a caller may ask to match: one that a "demo" type yields and one that
\* no type yields.
MatchNames == {<<"demo", 1, 1>>, <<"absent", 1, 1>>}

AsmInputs == [types : SeqsUpTo(TypeDescs, MaxTypes),
              additional : SeqsUpTo(AddDescs, MaxAdditional),
              match : SeqsUpTo(MatchNames, MaxMatch)]

\* The stage is not running.
AsmIdle ==
    /\ asm_pc = "idle"
    /\ asm_in = [types |-> <<>>, additional |-> <<>>, match |-> <<>>]
    /\ asm_idx = [type |-> 0, add |-> 0]
    /\ full_data = Int0
    /\ full_names = NameInt0
    /\ saved = <<>>

AsmStart ==
    /\ asm_pc = "run"
    /\ asm_in \in AsmInputs
    /\ asm_idx = [type |-> 0, add |-> 0]
    /\ full_data = Int0
    /\ full_names = NameInt0
    /\ saved = <<>>

AsmRaise ==
    /\ asm_pc' = "raised"
    /\ UNCHANGED <<asm_in, asm_idx, full_data, full_names, saved, asm_rest>>

\* One iteration of the loop over feature_types_to_include.
AssembleType ==
    /\ asm_pc = "run"
    /\ asm_idx.type < Len(asm_in.types)
    /\ LET loaded == load_dir(asm_in.types[asm_idx.type + 1])
           c == concat(asm_idx.type, full_data, full_names, loaded.data, loaded.names)
       IN IF ~loaded.ok \/ loaded.data.tag # "ndarray" \/ ~c.ok
          THEN AsmRaise
          ELSE /\ full_data' = c.data
               /\ full_names' = c.names
               /\ asm_idx' = [asm_idx EXCEPT !.type = @ + 1]
               /\ UNCHANGED <<asm_pc, asm_in, saved, asm_rest>>

\* One iteration of the loop over additional_features.
AssembleAdditional ==
    /\ asm_pc = "run"
    /\ asm_idx.type = Len(asm_in.types)
    /\ asm_idx.add < Len(asm_in.additional)
    /\ LET a == asm_in.additional[asm_idx.add + 1]
           curr == GenfromtxtShape(a.rows, 1)
       IN IF Len(curr) = 0
          THEN AsmRaise
          ELSE LET c == concat(asm_idx.add + 1, full_data, full_names,
                               NdArray(<<curr[1], 1>>),
                               NameArray(AddNames(asm_idx.add + 1)))
               IN IF ~c.ok
                  THEN AsmRaise
                  ELSE /\ full_data' = c.data
                       /\ full_names' = c.names
                       /\ asm_idx' = [asm_idx EXCEPT !.add = @ + 1]
                       /\ UNCHANGED <<asm_pc, asm_in, saved, asm_rest>>

LoopsDone ==
    /\ asm_idx.type = Len(asm_in.types)
    /\ asm_idx.add = Len(asm_in.additional)

\* np.where(full_names == name): a tuple with one index array per dimension
\* of the comparison's result.
NpWhere(names, name) ==
    IF names.tag = "ndarray"
    THEN << {i \in 1..Len(names.items) : names.items[i] = name} >>
    ELSE << {} >>

\* The column-matching block: the first requested name is looked up and
\* column_index_result[1] is read.
MatchColumns ==
    /\ asm_pc = "run"
    /\ LoopsDone
    /\ Len(asm_in.match) > 0
    /\ Len(NpWhere(full_names, asm_in.match[1])) < 2
    /\ AsmRaise

\* The shape print, the reshape of the names and the two np.save calls.
SaveMatrix ==
    /\ asm_pc = "run"
    /\ LoopsDone
    /\ Len(asm_in.match) = 0
    /\ IF full_data.tag # "ndarray"
       THEN AsmRaise
       ELSE /\ saved' = <<[data |-> full_data.shape,
                           names |-> full_names.items,
                           names_shape |-> <<Len(full_names.items), 1>>]>>
            /\ asm_pc' = "done"
            /\ UNCHANGED <<asm_in, asm_idx, full_data, full_names, asm_rest>>

NextAssemble == AssembleType \/ AssembleAdditional \/ MatchColumns \/ SaveMatrix

\* ------------------------------------------------------------------------
\* Python helpers of InstantiateExperimentDriver.py
\* ------------------------------------------------------------------------
\* Strings that the code builds, splits or parses are sequences of characters.
DigitChars == <<"0", "1", "2", "3", "4", "5", "6", "7", "8", "9">>
DigitValue(c) == (CHOOSE d \in 1..10 : DigitChars[d] = c) - 1

\* str(n) of a non-negative int: its decimal digits.
RECURSIVE PyStr(_)
PyStr(n) == IF n < 10 THEN <<DigitChars[n + 1]>>
            ELSE PyStr(n \div 10) \o <<DigitChars[(n % 10) + 1]>>

\* int(s) of a string of decimal digits.
RECURSIVE PyInt(_)
PyInt(s) == IF Len(s) = 1 THEN DigitValue(s[1])
            ELSE 10 * PyInt(SubSeq(s, 1, Len(s) - 1)) + DigitValue(s[Len(s)])

\* x in lst
In(x, lst) == \E i \in 1..Len(lst) : lst[i] = x

\* lst.index(x): the first 0-based position of x; -1 stands for the
\* ValueError raised when x is not in lst.
Index(lst, x) ==
    IF In(x, lst)
    THEN (CHOOSE i \in 1..Len(lst) : lst[i] = x /\ \A j \in 1..(i - 1) : lst[j] # x) - 1
    ELSE -1

\* Name resolution.  The names bound at module level (imports, functions, and
\* the variables the __main__ block assigns) and the names local to
\* determine_feature_matrix_and_target_matrix_rows.  A name in neither raises
\* NameError when it is evaluated.
ModuleGlobals ==
    {"RegressiveImputer", "get_clean_columns", "Imputer", "determine_attribute_sets",
     "staged_feature_inclusion", "Parallel", "delayed", "LogisticRegression", "SVC",
     "RandomForestClassifier", "roc_curve", "roc_auc_score", "cross_val_score",
     "multiprocessing", "np", "pickle", "load_list", "imputation",
     "determine_feature_matrix_and_target_matrix_rows", "run_feature_selection",
     "run_three_model_training", "populate_imputation_params",
     "populate_sample_rows_params", "populate_feature_selection_params",
     "experimental_base_dir", "params"}
IndexerLocals ==
    {"params", "load_target_present_rows", "case_order_rows", "target_case_rows",
     "target_feature_columns", "feature_samples_outfile", "target_samples_outfile",
     "feat_and_targ_samples_outfile", "t_idx", "target_name", "target_present_rows",
     "samples_full_fold_type", "target_full_fold_type", "feat_targ_full_fold_type",
     "sam_folds", "tar_folds", "feat_folds", "count", "idx", "case_id", "f_idx", "x"}
NameDefined(name) == name \in IndexerLocals \cup ModuleGlobals

\* ------------------------------------------------------------------------
\* determine_feature_matrix_and_target_matrix_rows (the Sample Indexer)
\* ------------------------------------------------------------------------
Cases == {"A", "B", "C", "D", "E"}
\* The case order of the feature matrix and of the target matrix.
CaseOrders == {<<"A", "B", "C", "D", "E">>, <<"B", "A", "C">>, <<"A", "B", "A">>}
TargetCaseOrders == {<<"A", "B", "C", "D", "E">>, <<"E", "D", "C", "B", "A">>, <<"A", "C">>}
TargetLists == {<<>>, <<"fever">>, <<"fever", "cough">>}

\* The item-presence table: a header line, then one line per case; field 1
\* (0-based) is the case id and the fields under the target names are 0/1.
ItemPresentHeader == <<"pid", "case_id", "fever", "cough">>
TableCases == <<"A", "B", "C", "D", "E">>
ItemPresentTables ==
    {[header |-> ItemPresentHeader,
      rows |-> [i \in 1..Len(TableCases) |-> <<"p", TableCases[i], f[i], c[i]>>]] :
        f \in [1..Len(TableCases) -> {0, 1}], c \in [1..Len(TableCases) -> {0, 1}]}

IdxInputs == [case_order_rows : CaseOrders,
              target_case_rows : TargetCaseOrders,
              target_feature_columns : TargetLists,
              item_present : ItemPresentTables]

\* load_target_present_rows: the case ids of the lines whose field under
\* target_name is truthy; ok = FALSE is the ValueError of
\* split_line.index(target_name).
load_target_present_rows(table, target_name) ==
    LET col == Index(table.header, target_name)
    IN IF col < 0 THEN [ok |-> FALSE, rows |-> <<>>]
       ELSE [ok |-> TRUE,
             rows |-> LET hit == SelectSeq(table.rows, LAMBDA r : r[col + 1] # 0)
                      IN [i \in 1..Len(hit) |-> hit[i][2]]]

\* The 0-based positions idx of case_order_rows whose case id is in
\* target_present_rows, in the order the loop meets them.
RECURSIVE PresentPositions(_, _, _)
PresentPositions(case_order_rows, target_present_rows, idx) ==
    IF idx >= Len(case_order_rows) THEN <<>>
    ELSE (IF In(case_order_rows[idx + 1], target_present_rows) THEN <<idx>> ELSE <<>>)
         \o PresentPositions(case_order_rows, target_present_rows, idx + 1)

\* The entries of lst that the loop appends to fold f: those met at count
\* values equal to f modulo 5.
FoldOf(lst, f) ==
    LET n == Cardinality({j \in 0..(Len(lst) - 1) : j % 5 = f})
    IN [k \in 1..n |-> lst[5 * (k - 1) + f + 1]]

\* The lists one iteration of the loop over the targets builds; ok = FALSE
\* is a ValueError of load_target_present_rows or of
\* target_case_rows.index(case_id).
TargetRows(inp, target_name) ==
    LET present == load_target_present_rows(inp.item_present, target_name)
        pos == PresentPositions(inp.case_order_rows, present.rows, 0)
        samples == [i \in 1..Len(pos) |-> PyStr(pos[i])]
        case_ids == [i \in 1..Len(pos) |-> inp.case_order_rows[pos[i] + 1]]
        found == \A i \in 1..Len(pos) : In(case_ids[i], inp.target_case_rows)
    IN IF ~present.ok \/ ~found
       THEN [ok |-> FALSE, samples |-> <<>>, target |-> <<>>, feat_targ |-> <<>>]
       ELSE [ok |-> TRUE,
             samples |-> samples,
             target |-> [i \in 1..Len(pos) |-> PyStr(Index(inp.target_case_rows, case_ids[i]))],
             feat_targ |-> case_ids]

FoldTypes == <<<<"f", "u", "l", "l">>, PyStr(0), PyStr(1), PyStr(2), PyStr(3), PyStr(4)>>

\* A line of a sample-index file: the tab-separated fields.
CommentLine(text) == [comment |-> TRUE, matrix |-> text, t_idx |-> <<>>,
                      target_name |-> "", fold_type |-> <<>>, items |-> <<>>]
RecordLine(matrix, t, target_name, fold_type, items) ==
    [comment |-> FALSE, matrix |-> matrix, t_idx |-> PyStr(t),
     target_name |-> target_name, fold_type |-> fold_type, items |-> items]

\* The six lines one target adds to a file: 'full', then folds 0..4.
TargetLines(matrix, t, target_name, lst) ==
    [k \in 1..6 |-> RecordLine(matrix, t, target_name, FoldTypes[k],
                               IF k = 1 THEN lst ELSE FoldOf(lst, k - 2))]

IdxIdle ==
    /\ idx_pc = "idle"
    /\ idx_in = [case_order_rows |-> <<>>, target_case_rows |-> <<>>,
                 target_feature_columns |-> <<>>,
                 item_present |-> [header |-> <<>>, rows |-> <<>>]]
    /\ t_idx = 0
    /\ feature_samples_outfile = <<>>
    /\ target_samples_outfile = <<>>
    /\ feat_and_targ_samples_outfile = <<>>

IdxStart ==
    /\ idx_pc = "start"
    /\ idx_in \in IdxInputs
    /\ t_idx = 0
    /\ feature_samples_outfile = <<>>
    /\ target_samples_outfile = <<>>
    /\ feat_and_targ_samples_outfile = <<>>

\* The three lists are loaded, the three files opened and their comment
\* lines written.
IndexerOpen ==
    /\ idx_pc = "start"
    /\ idx_pc' = "open"
    /\ feature_samples_outfile' =
          <<CommentLine("#feature_matrix_name, target_id, target_name, fold_type, row_indices")>>
    /\ target_samples_outfile' =
          <<CommentLine("#target_matrix_name, target_id, target_name, fold_type, row_indices")>>
    /\ feat_and_targ_samples_outfile' =
          <<CommentLine("#target_matrix_name, target_id, target_name, fold_type, case_ids")>>
    /\ UNCHANGED <<idx_in, t_idx, idx_rest>>

IdxRaise ==
    /\ idx_pc' = "raised"
    /\ UNCHANGED <<idx_in, t_idx, feature_samples_outfile, target_samples_outfile,
                   feat_and_targ_samples_outfile, idx_rest>>

\* One iteration of the loop over target_feature_columns.  Its first
\* statement evaluates parmas['item_present_file'].
IndexerTarget ==
    /\ idx_pc = "open"
    /\ t_idx < Len(idx_in.target_feature_columns)
    /\ IF ~NameDefined("parmas")
       THEN IdxRaise
       ELSE LET target_name == idx_in.target_feature_columns[t_idx + 1]
                r == TargetRows(idx_in, target_name)
            IN IF ~r.ok
               THEN IdxRaise
               ELSE /\ feature_samples_outfile' = feature_samples_outfile \o
                          TargetLines("feature_matrix_name", t_idx, target_name, r.samples)
                    /\ target_samples_outfile' = target_samples_outfile \o
                          TargetLines("target_matrix_name", t_idx, target_name, r.target)
                    /\ feat_and_targ_samples_outfile' = feat_and_targ_samples_outfile \o
                          TargetLines("target_matrix_name", t_idx, target_name, r.feat_targ)
                    /\ t_idx' = t_idx + 1
                    /\ UNCHANGED <<idx_pc, idx_in, idx_rest>>

\* The loop is over: the three files are closed.
IndexerClose ==
    /\ idx_pc = "open"
    /\ t_idx = Len(idx_in.target_feature_columns)
    /\ idx_pc' = "done"
    /\ UNCHANGED <<idx_in, t_idx, feature_samples_outfile, target_samples_outfile,
                   feat_and_targ_samples_outfile, idx_rest>>

NextIndexer == IndexerOpen \/ IndexerTarget \/ IndexerClose

\* ------------------------------------------------------------------------
\* imputation
\* ------------------------------------------------------------------------
\* A matrix is the sequence of its columns; a column carries the file it was
\* loaded from and its 0-based position there, and its cells by row.  A name
\* vector is the sequence of the same column identities.
Column(src, col, cells) == [src |-> src, col |-> col, cells |-> cells]
ColumnName(src, col) == [src |-> src, col |-> col]

\* The cells of a training column (two cases) and of an evaluation column
\* (one case): all missing, one value, a repeated value, two distinct values.
TrainColumnChoices == {<<"nan", "nan">>, <<"nan", "a">>, <<"a", "a">>, <<"a", "b">>}
TestColumnChoices == {<<"nan">>, <<"a">>}

ImpInputs ==
    [train : [1..ImpCols -> TrainColumnChoices],
     test : [1..ImpCols -> TestColumnChoices],
     unit_testing : BOOLEAN]

LoadedMatrix(src, cells) == [j \in 1..Len(cells) |-> Column(src, j - 1, cells[j])]
LoadedNames(src, cells) == [j \in 1..Len(cells) |-> ColumnName(src, j - 1)]

\* get_clean_columns(X) of the RegressiveImputer package: the ascending
\* positions of the columns with at least two distinct non-missing values.
RECURSIVE CleanFrom(_, _)
CleanFrom(X, j) ==
    IF j > Len(X) THEN <<>>
    ELSE (IF Cardinality({X[j].cells[i] : i \in 1..Len(X[j].cells)} \ {"nan"}) >= 2
          THEN <<j - 1>> ELSE <<>>) \o CleanFrom(X, j + 1)
get_clean_columns(X) == CleanFrom(X, 1)

\* X[:, columns] (and names[columns, :]): ok = FALSE is the IndexError of a
\* position outside the array.
Take(X, columns) ==
    IF \E i \in 1..Len(columns) : columns[i] + 1 > Len(X)
    THEN [ok |-> FALSE, val |-> <<>>]
    ELSE [ok |-> TRUE, val |-> [i \in 1..Len(columns) |-> X[columns[i] + 1]]]

\* The columns the unit_testing block keeps.
UnitTestColumns == <<0, 1, 2, 3, 4, 5, 6, 7, 999, 9000>>

\* An imputer object: how often it was fit, and the matrix of its last fit
\* (<<>> before any fit), which determines its fitted parameters.
NewImputer == [fit_count |-> 0, fitted_on |-> <<>>]

\* imputer.fit_transform(X) and imputer.transform(X): the imputer afterwards,
\* the returned array (X as filled in by the imputer's fitted state), and the
\* call as logged.  transform of an imputer that was never fit raises.
FitTransform(which, imputer, arg, X) ==
    LET fitted == [fit_count |-> imputer.fit_count + 1, fitted_on |-> <<X>>]
    IN [ok |-> TRUE,
        imputer |-> fitted,
        out |-> <<[data |-> X, by |-> fitted.fitted_on]>>,
        call |-> [imputer |-> which, method |-> "fit_transform", arg |-> arg, data |-> X]]
Transform(which, imputer, arg, X) ==
    [ok |-> imputer.fit_count > 0,
     imputer |-> imputer,
     out |-> <<[data |-> X, by |-> imputer.fitted_on]>>,
     call |-> [imputer |-> which, method |-> "transform", arg |-> arg, data |-> X]]

NoLocals ==
    [full_training_data |-> <<>>, full_training_names |-> <<>>,
     full_testing_data |-> <<>>, full_testing_names |-> <<>>,
     keep_columns |-> <<>>,
     cleaned_training_data |-> <<>>, cleaned_training_names |-> <<>>,
     cleaned_testing_data |-> <<>>, cleaned_testing_names |-> <<>>,
     r_imputed_training_data |-> <<>>, r_imputed_testing_data |-> <<>>,
     r_imputed_training_names |-> <<>>, r_imputed_test_names |-> <<>>,
     m_imputed_training_data |-> <<>>, m_imputed_testing_data |-> <<>>]

\* The output files, each <<>> until written and <<content>> afterwards.
NoFiles ==
    [keep_columns_out |-> <<>>, r_imputer_pkl |-> <<>>,
     train_rImp |-> <<>>, train_rImp_names |-> <<>>,
     eval_rImp |-> <<>>, eval_rImp_names |-> <<>>,
     m_imputer_pkl |-> <<>>,
     train_mImp |-> <<>>, train_mImp_names |-> <<>>,
     eval_mImp |-> <<>>, eval_mImp_names |-> <<>>]

ImpIdle ==
    /\ imp_pc = "idle"
    /\ imp_in = [train |-> <<>>, test |-> <<>>, unit_testing |-> FALSE]
    /\ imp_loc = NoLocals
    /\ r_imputer = NewImputer
    /\ m_imputer = NewImputer
    /\ imp_calls = <<>>
    /\ imp_files = NoFiles

ImpStart ==
    /\ imp_pc = "load"
    /\ imp_in \in ImpInputs
    /\ imp_loc = NoLocals
    /\ r_imputer = NewImputer
    /\ m_imputer = NewImputer
    /\ imp_calls = <<>>
    /\ imp_files = NoFiles

\* An exception leaves imputation(): its locals are gone, the files written
\* so far stay.
ImpRaise ==
    /\ imp_pc' = "raised"
    /\ imp_loc' = NoLocals
    /\ r_imputer' = NewImputer
    /\ m_imputer' = NewImputer
    /\ UNCHANGED <<imp_in, imp_calls, imp_files, imp_rest>>

\* The four np.load calls.
ImpLoad ==
    /\ imp_pc = "load"
    /\ imp_pc' = "clean"
    /\ imp_loc' = [imp_loc EXCEPT
          !.full_training_data = LoadedMatrix("train", imp_in.train),
          !.full_training_names = LoadedNames("train", imp_in.train),
          !.full_testing_data = LoadedMatrix("test", imp_in.test),
          !.full_testing_names = LoadedNames("test", imp_in.test)]
    /\ UNCHANGED <<imp_in, r_imputer, m_imputer, imp_calls, imp_files, imp_rest>>

\* keep_columns, and the four arrays and name vectors it is applied to.
KeepColumns == get_clean_columns(imp_loc.full_training_data)
CleanedTrainingData(keep_columns) == Take(imp_loc.full_training_data, keep_columns)
CleanedTrainingNames(keep_columns) == Take(imp_loc.full_training_names, keep_columns)
\* (the evaluation matrix cleaned by its own degenerate columns)
CleanedTestingDataOwnColumns(keep_columns) ==
    Take(imp_loc.full_testing_data, get_clean_columns(imp_loc.full_testing_data))
CleanedTestingData(keep_columns) == Take(imp_loc.full_testing_data, keep_columns)
CleanedTestingNames(keep_columns) == Take(imp_loc.full_testing_names, keep_columns)
\* What pickle.dump writes to params['keep_columns_out'].
KeepColumnsDumped(keep_columns) == keep_columns

\* The column-cleaning block.
ImpClean ==
    /\ imp_pc = "clean"
    /\ LET keep_columns == KeepColumns
           trd == CleanedTrainingData(keep_columns)
           trn == CleanedTrainingNames(keep_columns)
           ted == CleanedTestingData(keep_columns)
           ten == CleanedTestingNames(keep_columns)
       IN IF ~(trd.ok /\ trn.ok /\ ted.ok /\ ten.ok)
          THEN ImpRaise
          ELSE /\ imp_loc' = [imp_loc EXCEPT
                     !.keep_columns = keep_columns,
                     !.cleaned_training_data = trd.val,
                     !.cleaned_training_names = trn.val,
                     !.cleaned_testing_data = ted.val,
                     !.cleaned_testing_names = ten.val]
               /\ imp_files' = [imp_files EXCEPT
                     !.keep_columns_out = <<KeepColumnsDumped(keep_columns)>>]
               /\ imp_pc' = IF imp_in.unit_testing THEN "unit_testing" ELSE "r_fit"
               /\ UNCHANGED <<imp_in, r_imputer, m_imputer, imp_calls, imp_rest>>

\* The unit_testing block: keep_columns is reassigned and applied again.
ImpUnitTesting ==
    /\ imp_pc = "unit_testing"
    /\ LET keep_columns == UnitTestColumns
           trd == Take(imp_loc.cleaned_training_data, keep_columns)
           trn == Take(imp_loc.cleaned_training_names, keep_columns)
           ted == Take(imp_loc.cleaned_testing_data, keep_columns)
           ten == Take(imp_loc.cleaned_testing_names, keep_columns)
       IN IF ~(trd.ok /\ trn.ok /\ ted.ok /\ ten.ok)
          THEN ImpRaise
          ELSE /\ imp_loc' = [imp_loc EXCEPT
                     !.keep_columns = keep_columns,
                     !.cleaned_training_data = trd.val,
                     !.cleaned_training_names = trn.val,
                     !.cleaned_testing_data = ted.val,
                     !.cleaned_testing_names = ten.val]
               /\ imp_pc' = "r_fit"
               /\ UNCHANGED <<imp_in, r_imputer, m_imputer, imp_calls, imp_files, imp_rest>>

\* The imputer calls of imputation(), each on an np.copy of its argument.
RImputeTraining ==
    FitTransform("r", NewImputer, "cleaned_training_data", imp_loc.cleaned_training_data)
RImputeTesting ==
    Transform("r", r_imputer, "cleaned_testing_data", imp_loc.cleaned_testing_data)
MImputeTraining ==
    FitTransform("m", NewImputer, "cleaned_training_data", imp_loc.cleaned_training_data)
\* (the median imputer refit on the evaluation matrix)
MImputeTestingRefit ==
    FitTransform("m", m_imputer, "cleaned_testing_data", imp_loc.cleaned_testing_data)
MImputeTesting ==
    Transform("m", m_imputer, "cleaned_testing_data", imp_loc.cleaned_testing_data)

\* r_imputer = RegressiveImputer(...); r_imputer.fit_transform(training).
ImpRFit ==
    /\ imp_pc = "r_fit"
    /\ LET c == RImputeTraining
       IN /\ r_imputer' = c.imputer
          /\ imp_calls' = Append(imp_calls, c.call)
          /\ imp_loc' = [imp_loc EXCEPT !.r_imputed_training_data = c.out]
    /\ imp_pc' = "r_eval"
    /\ UNCHANGED <<imp_in, m_imputer, imp_files, imp_rest>>

\* r_imputer.transform(testing) and the two transform_column_names calls.
ImpREval ==
    /\ imp_pc = "r_eval"
    /\ LET c == RImputeTesting
       IN IF ~c.ok
          THEN ImpRaise
          ELSE /\ r_imputer' = c.imputer
               /\ imp_calls' = Append(imp_calls, c.call)
               /\ imp_loc' = [imp_loc EXCEPT
                     !.r_imputed_testing_data = c.out,
                     !.r_imputed_training_names =
                         <<[data |-> imp_loc.cleaned_training_names, by |-> c.imputer.fitted_on]>>,
                     !.r_imputed_test_names =
                         <<[data |-> imp_loc.cleaned_testing_names, by |-> c.imputer.fitted_on]>>]
               /\ imp_pc' = "r_save"
               /\ UNCHANGED <<imp_in, m_imputer, imp_files, imp_rest>>

\* pickle.dump(r_imputer) and the four np.save calls of the regression path.
ImpRSave ==
    /\ imp_pc = "r_save"
    /\ imp_files' = [imp_files EXCEPT
          !.r_imputer_pkl = <<r_imputer>>,
          !.train_rImp = imp_loc.r_imputed_training_data,
          !.train_rImp_names = imp_loc.r_imputed_training_names,
          !.eval_rImp = imp_loc.r_imputed_testing_data,
          !.eval_rImp_names = imp_loc.r_imputed_test_names]
    /\ imp_pc' = "m_fit"
    /\ UNCHANGED <<imp_in, imp_loc, r_imputer, m_imputer, imp_calls, imp_rest>>

\* m_imputer = Imputer(...); m_imputer.fit_transform(training).
ImpMFit ==
    /\ imp_pc = "m_fit"
    /\ LET c == MImputeTraining
       IN /\ m_imputer' = c.imputer
          /\ imp_calls' = Append(imp_calls, c.call)
          /\ imp_loc' = [imp_loc EXCEPT !.m_imputed_training_data = c.out]
    /\ imp_pc' = "m_eval"
    /\ UNCHANGED <<imp_in, r_imputer, imp_files, imp_rest>>

\* m_imputer.transform(testing).
ImpMEval ==
    /\ imp_pc = "m_eval"
    /\ LET c == MImputeTesting
       IN IF ~c.ok
          THEN ImpRaise
          ELSE /\ m_imputer' = c.imputer
               /\ imp_calls' = Append(imp_calls, c.call)
               /\ imp_loc' = [imp_loc EXCEPT !.m_imputed_testing_data = c.out]
               /\ imp_pc' = "m_save"
               /\ UNCHANGED <<imp_in, r_imputer, imp_files, imp_rest>>

\* pickle.dump(m_imputer) and the four np.save calls of the median path.
ImpMSave ==
    /\ imp_pc = "m_save"
    /\ imp_files' = [imp_files EXCEPT
          !.m_imputer_pkl = <<m_imputer>>,
          !.train_mImp = imp_loc.m_imputed_training_data,
          !.train_mImp_names = <<imp_loc.cleaned_training_names>>,
          !.eval_mImp = imp_loc.m_imputed_testing_data,
          !.eval_mImp_names = <<imp_loc.cleaned_testing_names>>]
    /\ imp_pc' = "done"
    /\ UNCHANGED <<imp_in, imp_loc, r_imputer, m_imputer, imp_calls, imp_rest>>

\* Any statement that loads, cleans, imputes or writes may raise (a missing
\* or unwritable file, an error inside an imputer); nothing catches it.
ImpFails ==
    /\ imp_pc \notin {"idle", "done", "raised"}
    /\ ImpRaise

NextImpute ==
    \/ ImpLoad \/ ImpClean \/ ImpUnitTesting
    \/ ImpRFit \/ ImpREval \/ ImpRSave
    \/ ImpMFit \/ ImpMEval \/ ImpMSave
    \/ ImpFails

\* ------------------------------------------------------------------------
\* run_three_model_training (the per-target trainer)
\* ------------------------------------------------------------------------
\* s.rstrip(chars): trailing characters that are in chars are removed.
RECURSIVE Rstrip(_, _)
Rstrip(s, chars) ==
    IF Len(s) > 0 /\ s[Len(s)] \in chars THEN Rstrip(SubSeq(s, 1, Len(s) - 1), chars) ELSE s

\* sub in s, for strings.
Contains(sub, s) ==
    \E i \in 1..(Len(s) - Len(sub) + 1) : SubSeq(s, i, i + Len(sub) - 1) = sub

\* s.split(sep) for a one-character separator.
RECURSIVE Split(_, _)
Split(s, sep) ==
    IF ~In(sep, s) THEN <<s>>
    ELSE LET i == Index(s, sep) + 1
         IN <<SubSeq(s, 1, i - 1)>> \o Split(SubSeq(s, i + 1, Len(s)), sep)

\* int(s) succeeds: s is a non-empty string of decimal digits.
IsInt(s) == Len(s) > 0 /\ \A i \in 1..Len(s) : In(s[i], DigitChars)

\* str(x) of a float given in hundredths: the shortest decimal with at least
\* one digit after the point.
PyStrFloat(h) ==
    PyStr(h \div 100) \o <<".">> \o
    (IF (h % 100) % 10 = 0 THEN PyStr((h % 100) \div 10)
     ELSE PyStr((h % 100) \div 10) \o PyStr(h % 10))

\* A dict: its items in insertion order.  d[k] = v keeps the position of a
\* key that is already there.
DictHas(d, k) == \E i \in 1..Len(d) : d[i].key = k
DictGet(d, k) == d[CHOOSE i \in 1..Len(d) : d[i].key = k].value
DictSet(d, k, v) ==
    IF DictHas(d, k)
    THEN [i \in 1..Len(d) |-> IF d[i].key = k THEN [key |-> k, value |-> v] ELSE d[i]]
    ELSE Append(d, [key |-> k, value |-> v])
DictKeys(d) == [i \in 1..Len(d) |-> d[i].key]

Underscore == <<"_">>
FullSuffix == <<"_", "f", "u", "l", "l">>

\* load_samples: key s_line[1] + '_' + s_line[3], value the ints of s_line[4:].
\* line.rstrip().split('\t') of a record line: the text is the fields joined
\* by tabs, the last of them the joined items; rstrip removes the tabs that
\* end the text, so the empty fields at the end are not in s_line.
RECURSIVE DropTrailingEmpty(_)
DropTrailingEmpty(fields) ==
    IF Len(fields) > 0 /\ Len(fields[Len(fields)]) = 0
    THEN DropTrailingEmpty(SubSeq(fields, 1, Len(fields) - 1))
    ELSE fields
SLine(line) ==
    DropTrailingEmpty(<<line.matrix, line.t_idx, line.target_name, line.fold_type>> \o
                      (IF line.items = <<>> THEN << <<>> >> ELSE line.items))

RECURSIVE LoadSamplesFrom(_, _, _)
LoadSamplesFrom(file, i, samples_dict) ==
    IF i > Len(file) THEN samples_dict
    ELSE LET line == file[i]
             s_line == SLine(line)
         IN IF line.comment THEN LoadSamplesFrom(file, i + 1, samples_dict)
            ELSE LoadSamplesFrom(file, i + 1,
                     DictSet(samples_dict, s_line[2] \o Underscore \o s_line[4],
                             [j \in 1..(Len(s_line) - 4) |-> PyInt(s_line[j + 4])]))
load_samples(file) == LoadSamplesFrom(file, 1, <<>>)

\* One file of load_feature_selection_files: every row is model_type:indices;
\* an empty index list stands for [0].  ok = FALSE is the ValueError of
\* unpacking a row that does not split in two, or of int().
\* (an empty index list gives an empty selection)
SelectedIndicesNoFallback(str_indices) ==
    LET strs == Split(str_indices, ",")
    IN IF Len(str_indices) = 0 THEN [ok |-> TRUE, value |-> <<>>]
       ELSE IF \E j \in 1..Len(strs) : ~IsInt(strs[j]) THEN [ok |-> FALSE, value |-> <<>>]
       ELSE [ok |-> TRUE, value |-> [j \in 1..Len(strs) |-> PyInt(strs[j])]]
\* The value stored for str_indices: the ints between the commas, [0] when
\* the string is empty.
SelectedIndices(str_indices) ==
    LET strs == Split(str_indices, ",")
    IN IF Len(str_indices) = 0 THEN [ok |-> TRUE, value |-> <<0>>]
       ELSE IF \E j \in 1..Len(strs) : ~IsInt(strs[j]) THEN [ok |-> FALSE, value |-> <<>>]
       ELSE [ok |-> TRUE, value |-> [j \in 1..Len(strs) |-> PyInt(strs[j])]]

RECURSIVE LoadSelectionRows(_, _, _, _)
LoadSelectionRows(file_rows, i, suffix, feature_dir) ==
    IF i > Len(file_rows) THEN [ok |-> TRUE, dict |-> feature_dir]
    ELSE LET parts == Split(file_rows[i], ":")
         IN IF Len(parts) # 2 THEN [ok |-> FALSE, dict |-> feature_dir]
            ELSE LET model_type == parts[1]
                     indices == SelectedIndices(parts[2])
                 IN IF ~indices.ok THEN [ok |-> FALSE, dict |-> feature_dir]
                    ELSE LoadSelectionRows(file_rows, i + 1, suffix,
                             DictSet(feature_dir, model_type \o suffix, indices.value))

DashM == <<"-", "m">>
DashR == <<"-", "r">>
load_feature_selection_files(files) ==
    LET m == LoadSelectionRows(files.mImp, 1, DashM, <<>>)
    IN IF ~m.ok THEN m ELSE LoadSelectionRows(files.rImp, 1, DashR, m.dict)

\* np.loadtxt: a file of one column (or of one row) loads as a 1-D array.
Loadtxt(rows) ==
    IF Len(rows) = 1 THEN [ndim |-> 1, rows |-> rows]
    ELSE IF Len(rows[1]) = 1 THEN [ndim |-> 1, rows |-> rows]
    ELSE [ndim |-> 2, rows |-> rows]

\* matrix[row_list, col]: IndexError (ok = FALSE) on a 1-D matrix or an index
\* out of bounds.
FancyIndex(matrix, row_list, col) ==
    IF \/ matrix.ndim # 2
       \/ \E i \in 1..Len(row_list) : row_list[i] >= Len(matrix.rows)
       \/ col >= Len(matrix.rows[1])
    THEN [ok |-> FALSE, y |-> <<>>]
    ELSE [ok |-> TRUE, y |-> [i \in 1..Len(row_list) |-> matrix.rows[row_list[i] + 1][col + 1]]]

CountNonzero(y) == Cardinality({i \in 1..Len(y) : y[i] # 0})
Min(a, b) == IF a <= b THEN a ELSE b

\* The six combinations in the order of the scores list, and the classifier,
\* the training slice and the evaluation matrix each branch uses.
LR == <<"l", "r">>
SV == <<"s", "v">>
RF == <<"r", "f">>
Combinations == <<LR \o DashM, SV \o DashM, RF \o DashM, LR \o DashR, SV \o DashR, RF \o DashR>>
BranchClassifier == <<"clf_lr", "clf_sv", "clf_rf", "clf_lr", "clf_sv", "clf_rf">>
BranchTrainData == <<"curr_m_data", "curr_m_data", "curr_m_data",
                     "curr_r_data", "curr_r_data", "curr_r_data">>
\* (every branch predicts on the median-imputed evaluation matrix)
BranchTestDataAllMedian == <<"mImp_test_data", "mImp_test_data", "mImp_test_data",
                             "mImp_test_data", "mImp_test_data", "mImp_test_data">>
BranchTestData == <<"mImp_test_data", "mImp_test_data", "mImp_test_data",
                    "rImp_test_data", "rImp_test_data", "rImp_test_data">>
\* The evaluation matrix of the predict_proba call of each branch, and the
\* key of feature_selection_dict in its fit, predict and predict_proba call.
BranchProbaData == <<"mImp_test_data", "mImp_test_data", "mImp_test_data",
                     "rImp_test_data", "rImp_test_data", "rImp_test_data">>
BranchFitColumns ==
    <<LR \o DashM, SV \o DashM, RF \o DashM, LR \o DashR, SV \o DashR, RF \o DashR>>
BranchPredictColumns ==
    <<LR \o DashM, SV \o DashM, RF \o DashM, LR \o DashR, SV \o DashR, RF \o DashR>>
BranchProbaColumns ==
    <<LR \o DashM, SV \o DashM, RF \o DashM, LR \o DashR, SV \o DashR, RF \o DashR>>

\* The rows the three writes of an iteration add.
ModelTypeRow(p, model_type, max) ==
    [id |-> p.id, model_type |-> model_type, score |-> PyStrFloat(max)]
PredictionRow(p, predictions) == [id |-> p.model_name, values |-> predictions]
\* (the probability row keyed like the prediction row)
ProbabilityRowByName(p, prediction_probabilities) ==
    [id |-> p.model_name, values |-> prediction_probabilities]
ProbabilityRow(p, prediction_probabilities) ==
    [id |-> p.id, values |-> prediction_probabilities]

\* Mean cross-validation scores, in hundredths.
ScoreChoices == {50, 75}
ScoreVectors == [1..6 -> ScoreChoices]

\* max(scores)
max_score(s) == CHOOSE m \in {s[i] : i \in 1..6} : \A i \in 1..6 : s[i] <= m
\* (the last position of the maximum)
best_score_last(s) ==
    (CHOOSE i \in 1..6 : s[i] = max_score(s)
                         /\ \A j \in (i + 1)..6 : s[j] # max_score(s)) - 1
\* scores.index(max_score)
best_score(s) == Index(s, max_score(s))

\* The inputs.  The sample-index files have the lines the Sample Indexer
\* writes for targets over four cases; a target may lack its 'full' line.
TrnCases == <<PyStr(0), PyStr(1), PyStr(2), PyStr(3)>>
LabelColumns == {<<1, 1, 0, 0>>, <<1, 0, 0, 0>>}
TargetNames == << <<"t", "0">>, <<"t", "1">>, <<"t", "2">>, <<"t", "3">>, <<"t", "4">> >>

RECURSIVE SampleFileFrom(_, _, _, _)
SampleFileFrom(matrix, has_full, t, acc) ==
    IF t >= Len(has_full) THEN acc
    ELSE LET lines == TargetLines(matrix, t, TargetNames[t + 1], TrnCases)
         IN SampleFileFrom(matrix, has_full, t + 1,
                           acc \o (IF has_full[t + 1] THEN lines ELSE Tail(lines)))
SampleFile(matrix, has_full) ==
    SampleFileFrom(matrix, has_full, 0,
                   <<CommentLine("#matrix_name, target_id, target_name, fold_type, row_indices")>>)

\* The -mImp.txt and -rImp.txt files of one key, as load_list returns them.
CompleteSelection ==
    [mImp |-> << LR \o <<":", "0", ",", "1">>, SV \o <<":">>, RF \o <<":", "1">> >>,
     rImp |-> << LR \o <<":", "0">>, SV \o <<":", "1">>, RF \o <<":", "0", ",", "1">> >>]
SelectionWithoutRfR ==
    [mImp |-> CompleteSelection.mImp,
     rImp |-> << LR \o <<":", "0">>, SV \o <<":", "1">> >>]

TrnInput(has_full, labels, selection) ==
    [target_samples_file |-> SampleFile("target_matrix_name", has_full),
     feature_samples_file |-> SampleFile("feature_matrix_name", has_full),
     target_feature_columns |-> SubSeq(TargetNames, 1, Len(has_full)),
     target_matrix_rows |-> [r \in 1..4 |-> [t \in 1..Len(labels) |-> labels[t][r]]],
     feature_selection_storage |-> selection]
TrnInputs ==
    UNION {{TrnInput(has_full, labels, selection) :
                has_full \in [1..n -> BOOLEAN], labels \in [1..n -> LabelColumns],
                selection \in {CompleteSelection, SelectionWithoutRfR}} : n \in 1..MaxTargets}

NoTrnLocals == [target_samples |-> <<>>, feature_samples |-> <<>>, target_matrix |-> Loadtxt(<<<<>>>>),
                full_keys |-> <<>>, target_col_indices |-> <<>>]
NoClassifiers == [clf_lr |-> <<>>, clf_sv |-> <<>>, clf_rf |-> <<>>]
NoFile == [state |-> "absent", lines |-> <<>>]

TrnIdle ==
    /\ trn_pc = "idle"
    /\ trn_in = TrnInput(<<>>, <<>>, CompleteSelection)
    /\ trn_loc = NoTrnLocals
    /\ key_idx = 0
    /\ scores = <<>>
    /\ clf = NoClassifiers
    /\ model_types_out = NoFile
    /\ predictions_out = NoFile
    /\ probabilities_out = NoFile

TrnStart ==
    /\ trn_pc = "start"
    /\ trn_in \in TrnInputs
    /\ trn_loc = NoTrnLocals
    /\ key_idx = 0
    /\ scores = <<>>
    /\ clf = NoClassifiers
    /\ model_types_out = NoFile
    /\ predictions_out = NoFile
    /\ probabilities_out = NoFile

\* The keys of model_keys that contain '_full', in the order of the dict.
RECURSIVE FullKeysFrom(_, _)
FullKeysFrom(model_keys, i) ==
    IF i > Len(model_keys) THEN <<>>
    ELSE (IF Contains(FullSuffix, model_keys[i]) THEN <<model_keys[i]>> ELSE <<>>)
         \o FullKeysFrom(model_keys, i + 1)

\* target_col_indices[key] = int(key.split('_')[0])
TargetColIndices(model_keys) ==
    [i \in 1..Len(model_keys) |->
        [key |-> model_keys[i], value |-> PyInt(Split(model_keys[i], "_")[1])]]

\* The matrices and lists are loaded, the three classifiers constructed, the
\* three result files opened and the header of model_types.txt written.
TrainOpen ==
    /\ trn_pc = "start"
    /\ trn_pc' = "loop"
    /\ LET target_samples == load_samples(trn_in.target_samples_file)
           model_keys == DictKeys(target_samples)
       IN trn_loc' = [target_samples |-> target_samples,
                      feature_samples |-> load_samples(trn_in.feature_samples_file),
                      target_matrix |-> Loadtxt(trn_in.target_matrix_rows),
                      full_keys |-> FullKeysFrom(model_keys, 1),
                      target_col_indices |-> TargetColIndices(model_keys)]
    /\ model_types_out' = [state |-> "open",
                           lines |-> <<"#model_id,model_type,max_train_auroc">>]
    /\ predictions_out' = [state |-> "open", lines |-> <<>>]
    /\ probabilities_out' = [state |-> "open", lines |-> <<>>]
    /\ UNCHANGED <<trn_in, key_idx, scores, clf, trn_rest>>

\* What one iteration computes before it scores the combinations.  ok = FALSE
\* is an IndexError, KeyError or ValueError of these statements.
Prepare(key) ==
    LET id == Rstrip(key, {"_", "f", "u", "l"})
        fails == [ok |-> FALSE, id |-> id, model_name |-> <<>>, training_y |-> <<>>,
                  feature_selection_dict |-> <<>>, num_folds |-> 0]
    IN IF ~IsInt(id) THEN fails
       ELSE IF PyInt(id) >= Len(trn_in.target_feature_columns) THEN fails
       ELSE LET training_y == FancyIndex(trn_loc.target_matrix,
                                         DictGet(trn_loc.target_samples, key),
                                         DictGet(trn_loc.target_col_indices, key))
                selection == load_feature_selection_files(trn_in.feature_selection_storage)
            IN IF ~training_y.ok \/ ~DictHas(trn_loc.feature_samples, key) \/ ~selection.ok
               THEN fails
               ELSE [ok |-> TRUE, id |-> id,
                     model_name |-> trn_in.target_feature_columns[PyInt(id) + 1],
                     training_y |-> training_y.y,
                     feature_selection_dict |-> selection.dict,
                     num_folds |-> Min(CountNonzero(training_y.y),
                                       Len(training_y.y) - CountNonzero(training_y.y))]

\* The six cross_val_score calls can be made: every combination has its
\* feature selection and cv is a valid number of folds.
CanScore(p) ==
    /\ p.ok
    /\ \A i \in 1..6 : DictHas(p.feature_selection_dict, Combinations[i])
    /\ p.num_folds >= 2

TrnRaise ==
    /\ trn_pc' = "raised"
    /\ UNCHANGED <<trn_in, trn_loc, key_idx, scores, clf, model_types_out, predictions_out,
                   probabilities_out, trn_rest>>

\* One iteration of the loop over full_keys that reaches its three writes:
\* the scores are what cross_val_score returns.
TrainTarget ==
    /\ trn_pc = "loop"
    /\ key_idx < Len(trn_loc.full_keys)
    /\ LET key == trn_loc.full_keys[key_idx + 1]
           p == Prepare(key)
       IN /\ CanScore(p)
          /\ \E s \in ScoreVectors :
                LET branch == best_score(s) + 1
                    model_type == Combinations[branch]
                    fitted == [key |-> key, data |-> BranchTrainData[branch],
                               columns |-> DictGet(p.feature_selection_dict,
                                                   BranchFitColumns[branch]),
                               y |-> p.training_y]
                    predictions ==
                        [method |-> "predict", classifier |-> BranchClassifier[branch],
                         fitted |-> fitted, data |-> BranchTestData[branch],
                         columns |-> DictGet(p.feature_selection_dict,
                                             BranchPredictColumns[branch])]
                    prediction_probabilities ==
                        [method |-> "predict_proba", classifier |-> BranchClassifier[branch],
                         fitted |-> fitted, data |-> BranchProbaData[branch],
                         columns |-> DictGet(p.feature_selection_dict,
                                             BranchProbaColumns[branch])]
                IN /\ scores' = s
                   /\ clf' = [clf EXCEPT ![BranchClassifier[branch]] = <<fitted>>]
                   /\ model_types_out' =
                         [model_types_out EXCEPT !.lines =
                             Append(@, ModelTypeRow(p, model_type, max_score(s)))]
                   /\ predictions_out' =
                         [predictions_out EXCEPT !.lines =
                             Append(@, PredictionRow(p, predictions))]
                   /\ probabilities_out' =
                         [probabilities_out EXCEPT !.lines =
                             Append(@, ProbabilityRow(p, prediction_probabilities))]
          /\ key_idx' = key_idx + 1
          /\ UNCHANGED <<trn_pc, trn_in, trn_loc, trn_rest>>

\* One iteration that raises: a statement before the scoring fails, cv is
\* below 2, or a cross-validation, fit or predict call of scikit-learn
\* raises.  Nothing in the function catches it.
TrainTargetRaises ==
    /\ trn_pc = "loop"
    /\ key_idx < Len(trn_loc.full_keys)
    /\ TrnRaise

\* The loop is over: the three files are closed.
TrainClose ==
    /\ trn_pc = "loop"
    /\ key_idx = Len(trn_loc.full_keys)
    /\ trn_pc' = "done"
    /\ model_types_out' = [model_types_out EXCEPT !.state = "closed"]
    /\ predictions_out' = [predictions_out EXCEPT !.state = "closed"]
    /\ probabilities_out' = [probabilities_out EXCEPT !.state = "closed"]
    /\ UNCHANGED <<trn_in, trn_loc, key_idx, scores, clf, trn_rest>>

NextTraining == TrainOpen \/ TrainTarget \/ TrainTargetRaises \/ TrainClose

\* ------------------------------------------------------------------------
\* run_feature_selection
\* ------------------------------------------------------------------------
\* params['feature_selection_storage'], and the two file name endings.
FeatureSelectionStorage == <<"f", "s", "/">>
MImpTxt == <<"-", "m", "I", "m", "p", ".", "t", "x", "t">>
RImpTxt == <<"-", "r", "I", "m", "p", ".", "t", "x", "t">>

mImp_out_file(key) == FeatureSelectionStorage \o key \o MImpTxt
\* (the median ending pasted into the regression path)
rImp_out_file_pasted(key) == FeatureSelectionStorage \o key \o MImpTxt
rImp_out_file(key) == FeatureSelectionStorage \o key \o RImpTxt

\* mImp_out_files_dict / rImp_out_files_dict: one path per key of model_keys.
MImpOutFilesDict(model_keys) ==
    [i \in 1..Len(model_keys) |-> [key |-> model_keys[i], value |-> mImp_out_file(model_keys[i])]]
RImpOutFilesDict(model_keys) ==
    [i \in 1..Len(model_keys) |-> [key |-> model_keys[i], value |-> rImp_out_file(model_keys[i])]]

\* (nothing is removed)
InverseKeepsAll(curr_all_samples, fold_samples) == curr_all_samples
\* The x of curr_all_samples that are not in the samples of the fold, in
\* order.
RECURSIVE Inverse(_, _)
Inverse(curr_all_samples, fold_samples) ==
    IF curr_all_samples = <<>> THEN <<>>
    ELSE (IF In(Head(curr_all_samples), fold_samples) THEN <<>> ELSE <<Head(curr_all_samples)>>)
         \o Inverse(Tail(curr_all_samples), fold_samples)

\* The key of the 'full' record of the target of model_key.
FullKeyOf(model_key) == Split(model_key, "_")[1] \o FullSuffix

\* One dict of inverse samples; ok = FALSE is the KeyError of a key that
\* samples lacks or of a fold key whose target has no 'full' record.
InverseSamples(samples, model_keys) ==
    IF \E i \in 1..Len(model_keys) :
          \/ ~DictHas(samples, model_keys[i])
          \/ ~Contains(FullSuffix, model_keys[i]) /\ ~DictHas(samples, FullKeyOf(model_keys[i]))
    THEN [ok |-> FALSE, dict |-> <<>>]
    ELSE [ok |-> TRUE,
          dict |-> [i \in 1..Len(model_keys) |->
                      [key |-> model_keys[i],
                       value |-> IF Contains(FullSuffix, model_keys[i])
                                 THEN DictGet(samples, model_keys[i])
                                 ELSE Inverse(DictGet(samples, FullKeyOf(model_keys[i])),
                                              DictGet(samples, model_keys[i]))]]]

FsInputs == {inp \in TrnInputs : inp.feature_selection_storage = CompleteSelection}

NoFsLocals == [target_samples |-> <<>>, feature_samples |-> <<>>,
               target_matrix |-> Loadtxt(<<<<>>>>), model_keys |-> <<>>,
               target_col_indices |-> <<>>, mImp_out_files_dict |-> <<>>,
               rImp_out_files_dict |-> <<>>, inverse_feature_samples |-> <<>>,
               inverse_target_samples |-> <<>>]

FsIdle ==
    /\ fs_pc = "idle"
    /\ fs_in = TrnInput(<<>>, <<>>, CompleteSelection)
    /\ fs_loc = NoFsLocals
    /\ fs_next = 0
    /\ fs_submitted = <<>>
    /\ fs_running = {}
    /\ fs_written = {}

FsStart ==
    /\ fs_pc = "start"
    /\ fs_in \in FsInputs
    /\ fs_loc = NoFsLocals
    /\ fs_next = 0
    /\ fs_submitted = <<>>
    /\ fs_running = {}
    /\ fs_written = {}

\* An exception leaves run_feature_selection; tasks already running in the
\* pool are other processes.
FsRaise ==
    /\ fs_pc' = "raised"
    /\ UNCHANGED <<fs_in, fs_loc, fs_next, fs_submitted, fs_running, fs_written, fs_rest>>

\* The matrices, sample dicts and lists are loaded; target_col_indices and
\* the two dicts of output paths are populated.
FsLoad ==
    /\ fs_pc = "start"
    /\ fs_pc' = "inverse"
    /\ LET target_samples == load_samples(fs_in.target_samples_file)
           model_keys == DictKeys(target_samples)
       IN fs_loc' = [fs_loc EXCEPT
                        !.target_samples = target_samples,
                        !.feature_samples = load_samples(fs_in.feature_samples_file),
                        !.target_matrix = Loadtxt(fs_in.target_matrix_rows),
                        !.model_keys = model_keys,
                        !.target_col_indices = TargetColIndices(model_keys),
                        !.mImp_out_files_dict = MImpOutFilesDict(model_keys),
                        !.rImp_out_files_dict = RImpOutFilesDict(model_keys)]
    /\ UNCHANGED <<fs_in, fs_next, fs_submitted, fs_running, fs_written, fs_rest>>

\* The loop that builds inverse_feature_samples and inverse_target_samples.
FsInverse ==
    /\ fs_pc = "inverse"
    /\ LET f == InverseSamples(fs_loc.feature_samples, fs_loc.model_keys)
           t == InverseSamples(fs_loc.target_samples, fs_loc.model_keys)
       IN IF ~f.ok \/ ~t.ok
          THEN FsRaise
          ELSE /\ fs_pc' = "filter"
               /\ fs_loc' = [fs_loc EXCEPT !.inverse_feature_samples = f.dict,
                                           !.inverse_target_samples = t.dict]
               /\ UNCHANGED <<fs_in, fs_next, fs_submitted, fs_running, fs_written, fs_rest>>

\* The 'if True' block: model_keys becomes the keys that contain '_full'.
FsFilter ==
    /\ fs_pc = "filter"
    /\ fs_pc' = "mImp"
    /\ fs_loc' = [fs_loc EXCEPT !.model_keys = FullKeysFrom(fs_loc.model_keys, 1)]
    /\ UNCHANGED <<fs_in, fs_next, fs_submitted, fs_running, fs_written, fs_rest>>

\* The task Parallel submits for model_key in the fan-out fs_pc names.
FsTask(fanout, model_key) ==
    [fanout |-> fanout,
     key |-> model_key,
     feature_rows |-> DictGet(fs_loc.inverse_feature_samples, model_key),
     target_rows |-> DictGet(fs_loc.inverse_target_samples, model_key),
     out_file |-> IF fanout = "mImp" THEN DictGet(fs_loc.mImp_out_files_dict, model_key)
                  ELSE DictGet(fs_loc.rImp_out_files_dict, model_key)]

\* Parallel takes the next item of its generator: the arguments of the task
\* are evaluated in the parent (an IndexError of target_matrix[..] leaves the
\* function) and the task is handed to the pool.
FsDispatch ==
    /\ fs_pc \in {"mImp", "rImp"}
    /\ fs_next < Len(fs_loc.model_keys)
    /\ LET model_key == fs_loc.model_keys[fs_next + 1]
           y == FancyIndex(fs_loc.target_matrix,
                           DictGet(fs_loc.inverse_target_samples, model_key),
                           DictGet(fs_loc.target_col_indices, model_key))
       IN IF ~y.ok
          THEN FsRaise
          ELSE /\ fs_next' = fs_next + 1
               /\ fs_submitted' = Append(fs_submitted, FsTask(fs_pc, model_key))
               /\ fs_running' = fs_running \cup {FsTask(fs_pc, model_key)}
               /\ UNCHANGED <<fs_pc, fs_in, fs_loc, fs_written, fs_rest>>

\* A task of the pool writes its output file, at any moment.
FsTaskWrites ==
    \E task \in fs_running :
       /\ fs_running' = fs_running \ {task}
       /\ fs_written' = fs_written \cup
             {[path |-> task.out_file, fanout |-> task.fanout, key |-> task.key]}
       /\ UNCHANGED <<fs_pc, fs_in, fs_loc, fs_next, fs_submitted, fs_rest>>

\* A task raises: Parallel re-raises in the parent.
FsTaskRaises ==
    /\ fs_pc \in {"mImp", "rImp"}
    /\ \E task \in fs_running :
          /\ fs_pc' = "raised"
          /\ fs_running' = fs_running \ {task}
          /\ UNCHANGED <<fs_in, fs_loc, fs_next, fs_submitted, fs_written, fs_rest>>

\* Every task of the fan-out has returned: the next fan-out starts, or the
\* function returns.
FsJoin ==
    /\ fs_pc \in {"mImp", "rImp"}
    /\ fs_next = Len(fs_loc.model_keys)
    /\ fs_running = {}
    /\ fs_pc' = IF fs_pc = "mImp" THEN "rImp" ELSE "done"
    /\ fs_next' = 0
    /\ UNCHANGED <<fs_in, fs_loc, fs_submitted, fs_running, fs_written, fs_rest>>

NextFeatureSelection ==
    \/ FsLoad \/ FsInverse \/ FsFilter
    \/ FsDispatch \/ FsTaskWrites \/ FsTaskRaises \/ FsJoin

\* ------------------------------------------------------------------------
\* load_feature_selection_files, on its own
\* ------------------------------------------------------------------------
\* A row of a feature-selection file: a model family and its column indices;
\* colon = FALSE is a row without the separator.
SelectionRowChoices ==
    {[model_type |-> LR, indices |-> <<0, 1>>, colon |-> TRUE],
     [model_type |-> SV, indices |-> <<>>, colon |-> TRUE],
     [model_type |-> LR, indices |-> <<10>>, colon |-> TRUE],
     [model_type |-> RF, indices |-> <<1, 0>>, colon |-> TRUE],
     [model_type |-> SV, indices |-> <<>>, colon |-> FALSE]}

\* ','.join(str(i) for i in indices)
RECURSIVE JoinComma(_)
JoinComma(indices) ==
    IF indices = <<>> THEN <<>>
    ELSE IF Len(indices) = 1 THEN PyStr(indices[1])
    ELSE PyStr(indices[1]) \o <<",">> \o JoinComma(Tail(indices))

\* The line of the file, as load_list returns it.
RowText(row) ==
    IF row.colon THEN row.model_type \o <<":">> \o JoinComma(row.indices) ELSE row.model_type
FileRows(rows) == [i \in 1..Len(rows) |-> RowText(rows[i])]

SelFiles == UNION {[1..n -> SelectionRowChoices] : n \in 0..MaxSelRows}
SelInputs == [mImp : SelFiles, rImp : SelFiles]

SelIdle ==
    /\ sel_pc = "idle"
    /\ sel_in = [mImp |-> <<>>, rImp |-> <<>>]
    /\ sel_out = <<>>

SelStart ==
    /\ sel_pc = "start"
    /\ sel_in \in SelInputs
    /\ sel_out = <<>>

\* load_feature_selection_files(prefilename) returns feature_dir, or raises.
SelLoad ==
    /\ sel_pc = "start"
    /\ LET r == load_feature_selection_files([mImp |-> FileRows(sel_in.mImp),
                                             rImp |-> FileRows(sel_in.rImp)])
       IN IF r.ok
          THEN sel_pc' = "done" /\ sel_out' = r.dict
          ELSE sel_pc' = "raised" /\ sel_out' = <<>>
    /\ UNCHANGED <<sel_in, sel_rest>>

NextSelection == SelLoad

\* ------------------------------------------------------------------------
\* Specifications: one per stage
\* ------------------------------------------------------------------------
InitAssemble == AsmStart /\ IdxIdle /\ ImpIdle /\ TrnIdle /\ FsIdle /\ SelIdle
SpecAssemble == InitAssemble /\ [][NextAssemble]_vars

InitIndexer == AsmIdle /\ IdxStart /\ ImpIdle /\ TrnIdle /\ FsIdle /\ SelIdle
SpecIndexer == InitIndexer /\ [][NextIndexer]_vars

InitImpute == AsmIdle /\ IdxIdle /\ ImpStart /\ TrnIdle /\ FsIdle /\ SelIdle
SpecImpute == InitImpute /\ [][NextImpute]_vars

InitTraining == AsmIdle /\ IdxIdle /\ ImpIdle /\ TrnStart /\ FsIdle /\ SelIdle
SpecTraining == InitTraining /\ [][NextTraining]_vars

InitFeatureSelection == AsmIdle /\ IdxIdle /\ ImpIdle /\ TrnIdle /\ FsStart /\ SelIdle
SpecFeatureSelection == InitFeatureSelection /\ [][NextFeatureSelection]_vars

InitSelection == AsmIdle /\ IdxIdle /\ ImpIdle /\ TrnIdle /\ FsIdle /\ SelStart
SpecSelection == InitSelection /\ [][NextSelection]_vars

\* The default path after the Sample Indexer: run_feature_selection or
\* run_three_model_training is called on the sample-index files.
InitFullKeys == InitFeatureSelection \/ InitTraining
SpecFullKeys == InitFullKeys /\ [][NextFeatureSelection \/ NextTraining]_vars

\* ------------------------------------------------------------------------
\* Claims about assemble_feature_matrix
\* ------------------------------------------------------------------------
AsmTerminated == asm_pc \in {"done", "raised"}

\* Whether a saved array holds `rows` cases of `cols` features.  A 1-D array
\* is read in the way most favourable to the code: as one row of n columns
\* when there is one case, as n rows of one column when there is one name.
HoldsMatrix(shape, rows, cols) ==
    CASE Len(shape) = 2 -> shape[1] = rows /\ shape[2] = cols
      [] Len(shape) = 1 -> \/ rows = 1 /\ shape[1] = cols
                           \/ cols = 1 /\ shape[1] = rows
      [] OTHER -> rows = 1 /\ cols = 1

\* Every type has at least one file and all files and additional features
\* cover the same cases.
AsmValidInput ==
    /\ Len(asm_in.types) > 0
    /\ \A i \in 1..Len(asm_in.types) :
          /\ asm_in.types[i].nfiles > 0
          /\ asm_in.types[i].rows = asm_in.types[1].rows
    /\ \A j \in 1..Len(asm_in.additional) :
          asm_in.additional[j].rows = asm_in.types[1].rows

\* C4: for every valid input, the saved name vector has as many entries as
\* the saved matrix has columns, and the saved matrix has as many rows as the
\* first feature type processed has cases (later types, files and additional
\* features add columns, never rows).
C4_SavedShapeMatchesNamesAndFirstType ==
    (asm_pc = "done" /\ AsmValidInput)
        => HoldsMatrix(saved[1].data, asm_in.types[1].rows, Len(saved[1].names))

\* The end-to-end scenario: "demo" with 3 single-column files, then "labs"
\* with 1 multi-column file, all over the same 10 cases.
DemoThenLabs ==
    /\ Len(asm_in.types) = 2
    /\ asm_in.types[1] = [kind |-> "demo", nfiles |-> 3, rows |-> 10, cols |-> 1]
    /\ asm_in.types[2].kind = "labs"
    /\ asm_in.types[2].nfiles = 1
    /\ asm_in.types[2].rows = 10
    /\ asm_in.types[2].cols > 1
    /\ asm_in.additional = <<>>
    /\ asm_in.match = <<>>

\* C5: in the demo-then-labs scenario the assembly completes and saves a
\* matrix of 10 rows and 3 + C_labs columns with 3 + C_labs names.
C5_DemoThenLabsSaves10RowsAnd3PlusCLabsColumns ==
    (DemoThenLabs /\ AsmTerminated)
        => /\ asm_pc = "done"
           /\ saved[1].data = <<10, 3 + asm_in.types[2].cols>>
           /\ Len(saved[1].names) = 3 + asm_in.types[2].cols

\* The requested names that occur in the assembled name vector, in request
\* order.
RequestedThatOccur(req, names) ==
    SelectSeq(req, LAMBDA r : \E i \in 1..Len(names) : names[i] = r)

\* C10: with a non-empty feature_columns_to_match (and the matrix assembled
\* without error), the call does not raise and saves exactly one column per
\* requested name that occurs, in request order; names that do not occur are
\* skipped.
C10_MatchKeepsRequestedColumnsWithoutRaising ==
    (AsmTerminated /\ Len(asm_in.types) > 0 /\ LoopsDone /\ Len(asm_in.match) > 0)
        => /\ asm_pc = "done"
           /\ saved[1].names = RequestedThatOccur(asm_in.match, full_names.items)
           /\ Len(saved[1].data) = 2
           /\ saved[1].data[2] = Len(saved[1].names)

\* ------------------------------------------------------------------------
\* Claims about determine_feature_matrix_and_target_matrix_rows
\* ------------------------------------------------------------------------
IdxTerminated == idx_pc \in {"done", "raised"}

\* The records of a file for target index t (0-based) and the k-th fold type
\* of FoldTypes ('full' is the first).
RecordsOf(file, t, k) ==
    SelectSeq(file, LAMBDA l : ~l.comment /\ l.t_idx = PyStr(t) /\ l.fold_type = FoldTypes[k])

TargetIndices == 0..(Len(idx_in.target_feature_columns) - 1)

\* The five fold lists of target t in a file are pairwise disjoint and
\* interleave, by arrival, to the 'full' list.
FoldsInterleaveToFull(file, t) ==
    /\ \A k \in 1..6 : Len(RecordsOf(file, t, k)) = 1
    /\ LET full == RecordsOf(file, t, 1)[1].items
           fold(f) == RecordsOf(file, t, f + 2)[1].items
       IN /\ Len(fold(0)) + Len(fold(1)) + Len(fold(2)) + Len(fold(3)) + Len(fold(4))
                = Len(full)
          /\ \A j \in 0..(Len(full) - 1) :
                /\ Len(fold(j % 5)) > j \div 5
                /\ fold(j % 5)[(j \div 5) + 1] = full[j + 1]
          /\ \A f \in 0..4, g \in 0..4 :
                f # g => \A a \in 1..Len(fold(f)), b \in 1..Len(fold(g)) :
                            fold(f)[a] # fold(g)[b]

\* C1: once the indexer has run, every target has a 'full' record and five
\* fold records in the feature-samples file; the folds are pairwise disjoint
\* and the j-th entry of 'full' is entry floor(j/5) of fold j mod 5.
C1_FoldsPartitionFullByArrival ==
    IdxTerminated
        => \A t \in TargetIndices : FoldsInterleaveToFull(feature_samples_outfile, t)

\* C2: once the indexer has run, for every target and fold type the three
\* files hold one record each, of equal length, and position i of the three
\* denotes the same case.
C2_ThreeFilesDenoteSameCase ==
    IdxTerminated
        => \A t \in TargetIndices : \A k \in 1..6 :
              LET fr == RecordsOf(feature_samples_outfile, t, k)
                  tr == RecordsOf(target_samples_outfile, t, k)
                  cr == RecordsOf(feat_and_targ_samples_outfile, t, k)
              IN /\ Len(fr) = 1 /\ Len(tr) = 1 /\ Len(cr) = 1
                 /\ Len(fr[1].items) = Len(cr[1].items)
                 /\ Len(tr[1].items) = Len(cr[1].items)
                 /\ \A i \in 1..Len(cr[1].items) :
                       /\ idx_in.case_order_rows[PyInt(fr[1].items[i]) + 1] = cr[1].items[i]
                       /\ idx_in.target_case_rows[PyInt(tr[1].items[i]) + 1] = cr[1].items[i]

\* The case ids whose cell under target_name is truthy in the item-presence
\* table.
TruthyCases(target_name) ==
    LET col == CHOOSE c \in 1..Len(idx_in.item_present.header) :
                   idx_in.item_present.header[c] = target_name
    IN {idx_in.item_present.rows[i][2] :
           i \in {n \in 1..Len(idx_in.item_present.rows) :
                     idx_in.item_present.rows[n][col] # 0}}

RECURSIVE Ascending(_)
Ascending(S) ==
    IF S = {} THEN <<>>
    ELSE LET m == CHOOSE x \in S : \A y \in S : x <= y
         IN <<m>> \o Ascending(S \ {m})

\* C3: once the indexer has run, the 'full' feature-samples record of every
\* target lists, in ascending order, exactly the positions of the case order
\* whose case is present for the target; "fever" present for {A, C, D} with
\* case order [A,B,C,D,E] gives [0,2,3].
C3_FullListsPresentPositions ==
    IdxTerminated
        => \A t \in TargetIndices :
              LET name == idx_in.target_feature_columns[t + 1]
                  full == RecordsOf(feature_samples_outfile, t, 1)
                  pos == Ascending({i \in 0..(Len(idx_in.case_order_rows) - 1) :
                                      idx_in.case_order_rows[i + 1] \in TruthyCases(name)})
              IN /\ Len(full) = 1
                 /\ full[1].items = [i \in 1..Len(pos) |-> PyStr(pos[i])]
                 /\ (/\ name = "fever"
                     /\ TruthyCases(name) = {"A", "C", "D"}
                     /\ idx_in.case_order_rows = <<"A", "B", "C", "D", "E">>)
                        => full[1].items = <<PyStr(0), PyStr(2), PyStr(3)>>

\* The cases of the feature-matrix case order that are present for a target,
\* in that order.
PresentInOrder(target_name) ==
    SelectSeq(idx_in.case_order_rows, LAMBDA c : c \in TruthyCases(target_name))

\* A case present for the target is absent from the target-matrix case order.
LookupMissing(target_name) ==
    \E i \in 1..Len(PresentInOrder(target_name)) :
       \A j \in 1..Len(idx_in.target_case_rows) :
          idx_in.target_case_rows[j] # PresentInOrder(target_name)[i]

\* The first 0-based position of a case id in the target-matrix case order.
FirstTargetRow(case_id) ==
    (CHOOSE i \in 1..Len(idx_in.target_case_rows) :
        /\ idx_in.target_case_rows[i] = case_id
        /\ \A j \in 1..(i - 1) : idx_in.target_case_rows[j] # case_id) - 1

RoundTrips(file, lists) ==
    LET samples_dict == load_samples(file)
    IN /\ Len(samples_dict) = 6 * Len(idx_in.target_feature_columns)
       /\ \A t \in TargetIndices : \A k \in 1..6 :
             LET key == PyStr(t) \o <<"_">> \o FoldTypes[k]
                 lst == IF k = 1 THEN lists[t + 1] ELSE FoldOf(lists[t + 1], k - 2)
             IN /\ Cardinality({i \in 1..Len(samples_dict) : samples_dict[i].key = key}) = 1
                /\ DictGet(samples_dict, key) = lst

\* The positions, in the feature-matrix case order, of the cases present
\* for each target, and their first positions in the target-matrix case
\* order.
FeatureRowLists ==
    [n \in 1..Len(idx_in.target_feature_columns) |->
        LET name == idx_in.target_feature_columns[n]
        IN Ascending({i \in 0..(Len(idx_in.case_order_rows) - 1) :
                         idx_in.case_order_rows[i + 1] \in TruthyCases(name)})]
TargetRowLists ==
    [n \in 1..Len(idx_in.target_feature_columns) |->
        LET cases == PresentInOrder(idx_in.target_feature_columns[n])
        IN [i \in 1..Len(cases) |-> FirstTargetRow(cases[i])]]

\* C19: for every list of target names and every presence pattern (targets
\* without a present case and empty folds included), load_samples reads from
\* the feature-samples and the target-samples file the indexer wrote exactly
\* one entry per (target index, fold type), under key index_fold, whose value
\* is the integer list the indexer computed for it, in order; comment lines
\* are skipped and no two pairs share a key.
C19_IndexFilesRoundTripThroughLoadSamples ==
    (idx_pc = "done" \/ (idx_pc = "raised" /\ \A t \in TargetIndices :
                             ~LookupMissing(idx_in.target_feature_columns[t + 1])))
        => /\ RoundTrips(feature_samples_outfile, FeatureRowLists)
           /\ RoundTrips(target_samples_outfile, TargetRowLists)

\* ------------------------------------------------------------------------
\* Claims about imputation
\* ------------------------------------------------------------------------
\* The calls of imputer `which` before position i of the call log.
EarlierFits(which, i) ==
    {j \in 1..(i - 1) : imp_calls[j].imputer = which /\ imp_calls[j].method = "fit_transform"}

OnlyTrainingColumns(X) == \A j \in 1..Len(X) : X[j].src = "train"
SomeTestingColumn(X) == \E j \in 1..Len(X) : X[j].src = "test"

\* A persisted imputer snapshot was fit once, on training columns only.
FitOnceOnTraining(pkl) ==
    pkl # <<>> => /\ pkl[1].fit_count = 1
                  /\ Len(pkl[1].fitted_on) = 1
                  /\ OnlyTrainingColumns(pkl[1].fitted_on[1])

\* C7: each imputer is fit at most once (exactly once when imputation()
\* returns), on the cleaned training matrix; the evaluation matrix is passed
\* only to transform, of an imputer fit before; the persisted imputers and
\* the persisted evaluation outputs rest on a training-only fit.
C7_ImputersFitOnTrainingOnly ==
    /\ \A i \in 1..Len(imp_calls) :
          LET c == imp_calls[i]
          IN /\ c.method = "fit_transform"
                   => /\ c.arg = "cleaned_training_data"
                      /\ OnlyTrainingColumns(c.data)
                      /\ EarlierFits(c.imputer, i) = {}
             /\ (c.arg = "cleaned_testing_data" \/ SomeTestingColumn(c.data))
                   => /\ c.method = "transform"
                      /\ EarlierFits(c.imputer, i) # {}
    /\ FitOnceOnTraining(imp_files.r_imputer_pkl)
    /\ FitOnceOnTraining(imp_files.m_imputer_pkl)
    /\ \A out \in {imp_files.eval_rImp, imp_files.eval_mImp} :
          out # <<>> => /\ Len(out[1].by) = 1
                        /\ OnlyTrainingColumns(out[1].by[1])
    /\ imp_pc = "done"
          => \A which \in {"r", "m"} :
                Cardinality(EarlierFits(which, Len(imp_calls) + 1)) = 1

\* imputation() returned after both imputers were fit on a training matrix of
\* at least two kept columns and applied to the evaluation matrix.
C7_Witness ==
    /\ imp_pc = "done"
    /\ Len(imp_calls) = 4
    /\ imp_files.m_imputer_pkl # <<>>
    /\ Len(imp_files.m_imputer_pkl[1].fitted_on[1]) >= 2
    /\ SomeTestingColumn(imp_calls[4].data)

\* The locals of the cleaning block are alive.
ImpCleaned == imp_pc \in {"unit_testing", "r_fit", "r_eval", "r_save", "m_fit", "m_eval",
                          "m_save", "done"}

\* The input positions of the columns of a matrix or name vector.
Origins(X) == [j \in 1..Len(X) |-> X[j].col]

\* C8: the persisted kept-column list is the one computed from the training
\* matrix; the cleaned training and evaluation matrices and name vectors have
\* the same columns in the same order, from the respective inputs, and these
\* are the persisted list (until the unit_testing block subsets them again).
C8_SameKeptColumnsEverywhere ==
    /\ imp_files.keep_columns_out # <<>>
          => imp_files.keep_columns_out[1] =
                get_clean_columns(LoadedMatrix("train", imp_in.train))
    /\ ImpCleaned
          => /\ imp_files.keep_columns_out # <<>>
             /\ Origins(imp_loc.cleaned_testing_data) = Origins(imp_loc.cleaned_training_data)
             /\ Origins(imp_loc.cleaned_training_names) = Origins(imp_loc.cleaned_training_data)
             /\ Origins(imp_loc.cleaned_testing_names) = Origins(imp_loc.cleaned_training_data)
             /\ OnlyTrainingColumns(imp_loc.cleaned_training_data)
             /\ OnlyTrainingColumns(imp_loc.cleaned_training_names)
             /\ ~SomeTestingColumn(imp_loc.cleaned_training_data)
             /\ \A j \in 1..Len(imp_loc.cleaned_testing_data) :
                   /\ imp_loc.cleaned_testing_data[j].src = "test"
                   /\ imp_loc.cleaned_testing_names[j].src = "test"
             /\ (~imp_in.unit_testing \/ imp_pc = "unit_testing")
                   => Origins(imp_loc.cleaned_training_data) = imp_files.keep_columns_out[1]
    /\ imp_files.eval_mImp_names # <<>>
          => Origins(imp_files.eval_mImp_names[1]) = Origins(imp_files.train_mImp_names[1])

\* imputation() returned having dropped the middle column of three from both
\* matrices.
C8_Witness ==
    /\ imp_pc = "done"
    /\ imp_files.keep_columns_out = << <<0, 2>> >>
    /\ Origins(imp_loc.cleaned_testing_data) = <<0, 2>>
    /\ Origins(imp_loc.cleaned_training_data) = <<0, 2>>

\* C18: if imputation() fails at any step the run is aborted with no partial
\* artifact: at the moment of the failure none of the output files of the
\* stage (keep-columns file, imputer snapshots, rImp and mImp matrices and
\* names) has been written.
C18_FailureLeavesNoArtifact ==
    imp_pc = "raised" => imp_files = NoFiles

\* ------------------------------------------------------------------------
\* Claims about run_three_model_training
\* ------------------------------------------------------------------------
\* The last iteration of the loop wrote its rows: scores are its scores.
TargetWritten == trn_pc \in {"loop", "done", "raised"} /\ key_idx > 0 /\ scores # <<>>

\* The row of model_types.txt the last iteration wrote.
LastModelTypeRow == model_types_out.lines[Len(model_types_out.lines)]

\* The combinations a row of model_types.txt may name for these scores: the
\* ones of maximal score that no earlier combination equals.
SelectedCombinations(s) ==
    {i \in 1..6 : /\ \A j \in 1..6 : s[j] <= s[i]
                  /\ \A j \in 1..(i - 1) : s[j] < s[i]}

\* C6: for every target processed and every vector of six mean scores in the
\* order lr-m, sv-m, rf-m, lr-r, sv-r, rf-r, exactly one combination is
\* selected (one row per processed target); it has the maximum score and is
\* the lowest position among those that share it; the score written to the
\* model-type file is that maximum.
C6_FirstMaximalCombinationSelected ==
    /\ model_types_out.state # "absent" => Len(model_types_out.lines) = key_idx + 1
    /\ TargetWritten
          => /\ Cardinality(SelectedCombinations(scores)) = 1
             /\ \E i \in SelectedCombinations(scores) :
                   /\ LastModelTypeRow.model_type = Combinations[i]
                   /\ LastModelTypeRow.score = PyStrFloat(scores[i])
                   /\ predictions_out.lines[key_idx].values.classifier = BranchClassifier[i]
                   /\ predictions_out.lines[key_idx].values.data = BranchTestData[i]

\* The second target was scored with the maximum shared by sv-m and lr-r,
\* below-maximum lr-m before them, and sv-m was written.
C6_Witness ==
    /\ trn_pc = "done"
    /\ key_idx = 2
    /\ scores = <<50, 75, 50, 75, 50, 50>>
    /\ LastModelTypeRow.model_type = SV \o DashM
    /\ LastModelTypeRow.score = <<"0", ".", "7", "5">>

\* The run is over: it returned or an exception left the function.
TrnTerminated == trn_pc \in {"done", "raised"}

\* The ids (key.rstrip('_full')) that have a row in a result file.
RowIds(file) == {file.lines[i].id : i \in 1..Len(file.lines)}

\* The full keys other than the one whose iteration raised.
OtherFullKeys ==
    {trn_loc.full_keys[i] : i \in (1..Len(trn_loc.full_keys)) \ 
                                   (IF trn_pc = "raised" THEN {key_idx + 1} ELSE {})}

\* C9: a failure while processing one target aborts only that target: when
\* the run is over, every other target that has a 'full' record has its row
\* in the three result files, and the files are closed.
C9_FailureAbortsOnlyThatTarget ==
    TrnTerminated
       => /\ \A key \in OtherFullKeys :
                LET id == Rstrip(key, {"_", "f", "u", "l"})
                IN /\ \E i \in 2..Len(model_types_out.lines) : model_types_out.lines[i].id = id
                   /\ id \in RowIds(probabilities_out)
                   /\ trn_in.target_feature_columns[PyInt(id) + 1] \in RowIds(predictions_out)
          /\ model_types_out.state = "closed"
          /\ predictions_out.state = "closed"
          /\ probabilities_out.state = "closed"

\* The targets that have a 'full' record in a sample-index file: their
\* indices as written in the file, in file order.
RECURSIVE FullTargetsOf(_, _)
FullTargetsOf(file, i) ==
    IF i > Len(file) THEN <<>>
    ELSE (IF ~file[i].comment /\ file[i].fold_type = <<"f", "u", "l", "l">>
          THEN <<file[i].t_idx>> ELSE <<>>)
         \o FullTargetsOf(file, i + 1)

\* The data rows of model_types.txt: the lines after the header.
ModelTypeRows == Tail(model_types_out.lines)

\* C12: after run_three_model_training returns, each result file holds
\* exactly one data row per target that has a 'full' record; the rows of a
\* target stand at the same position in the three files; the rows are keyed
\* by the target index (model types, probabilities) and by the target name
\* at that index (predictions).
C12_OneKeyedRowPerFullTarget ==
    trn_pc = "done"
       => LET targets == FullTargetsOf(trn_in.target_samples_file, 1)
          IN /\ Len(ModelTypeRows) = Len(targets)
             /\ Len(predictions_out.lines) = Len(targets)
             /\ Len(probabilities_out.lines) = Len(targets)
             /\ \A i \in 1..Len(targets) :
                   /\ ModelTypeRows[i].id = targets[i]
                   /\ probabilities_out.lines[i].id = targets[i]
                   /\ predictions_out.lines[i].id =
                         trn_in.target_feature_columns[PyInt(targets[i]) + 1]
             /\ \A i, j \in 1..Len(targets) : i # j => targets[i] # targets[j]

\* The run returned with one row for target 1, the only one of two targets
\* that has a 'full' record.
C12_Witness ==
    /\ trn_pc = "done"
    /\ Len(trn_in.target_feature_columns) = 2
    /\ Len(ModelTypeRows) = 1
    /\ ModelTypeRows[1].id = <<"1">>
    /\ predictions_out.lines[1].id = <<"t", "1">>
    /\ probabilities_out.lines[1].id = <<"1">>

\* What the name of a combination stands for: family-kind.
FamilyClassifier(model_type) ==
    IF SubSeq(model_type, 1, 2) = LR THEN "clf_lr"
    ELSE IF SubSeq(model_type, 1, 2) = SV THEN "clf_sv" ELSE "clf_rf"
KindTrainData(model_type) ==
    IF model_type[Len(model_type)] = "m" THEN "curr_m_data" ELSE "curr_r_data"
KindTestData(model_type) ==
    IF model_type[Len(model_type)] = "m" THEN "mImp_test_data" ELSE "rImp_test_data"

\* C14: whichever combination wins for a target, the classifier of its
\* family is refit on the target's training slice of its imputation kind
\* restricted to its selected columns, and both the predictions and the
\* probabilities come from that classifier on the evaluation matrix of the
\* same kind restricted to the same columns.
C14_RefitAndScoringUseTheWinner ==
    TargetWritten
       => LET key == trn_loc.full_keys[key_idx]
              winner == LastModelTypeRow.model_type
              columns == DictGet(load_feature_selection_files(
                                     trn_in.feature_selection_storage).dict, winner)
              fitted == [key |-> key, data |-> KindTrainData(winner), columns |-> columns,
                         y |-> Prepare(key).training_y]
          IN /\ clf[FamilyClassifier(winner)] = <<fitted>>
             /\ \A row \in {predictions_out.lines[key_idx], probabilities_out.lines[key_idx]} :
                   /\ row.values.classifier = FamilyClassifier(winner)
                   /\ row.values.fitted = fitted
                   /\ row.values.data = KindTestData(winner)
                   /\ row.values.columns = columns
             /\ predictions_out.lines[key_idx].values.method = "predict"
             /\ probabilities_out.lines[key_idx].values.method = "predict_proba"

\* A regression-imputed combination won for the second target: rf-r, with
\* its own column selection.
C14_Witness ==
    /\ TargetWritten
    /\ key_idx = 2
    /\ LastModelTypeRow.model_type = RF \o DashR
    /\ predictions_out.lines[2].values.data = "rImp_test_data"
    /\ probabilities_out.lines[2].values.columns = <<0, 1>>
    /\ clf.clf_rf # <<>>


\* ------------------------------------------------------------------------
\* Claims about load_feature_selection_files
\* ------------------------------------------------------------------------
\* The rows of a file that no later row of the file overrides.
LastOfItsType(rows, i) == \A j \in (i + 1)..Len(rows) : rows[j].model_type # rows[i].model_type

\* What a row's index list stands for.
Fallback(indices) == IF indices = <<>> THEN <<0>> ELSE indices

\* C13: every line model_type:i1,i2,... of the -mImp.txt file is mapped to
\* key model_type-m and of the -rImp.txt file to key model_type-r, with its
\* indices in file order (the last line of a model type is the one kept);
\* an empty index list maps to [0], never to an empty selection; the dict
\* has no other key.
C13_LinesMapToSuffixedKeys ==
    sel_pc = "done"
       => /\ \A i \in 1..Len(sel_in.mImp) :
                /\ DictHas(sel_out, sel_in.mImp[i].model_type \o <<"-", "m">>)
                /\ LastOfItsType(sel_in.mImp, i)
                      => DictGet(sel_out, sel_in.mImp[i].model_type \o <<"-", "m">>) =
                            Fallback(sel_in.mImp[i].indices)
          /\ \A i \in 1..Len(sel_in.rImp) :
                /\ DictHas(sel_out, sel_in.rImp[i].model_type \o <<"-", "r">>)
                /\ LastOfItsType(sel_in.rImp, i)
                      => DictGet(sel_out, sel_in.rImp[i].model_type \o <<"-", "r">>) =
                            Fallback(sel_in.rImp[i].indices)
          /\ \A i \in 1..Len(sel_out) :
                /\ sel_out[i].value # <<>>
                /\ \/ \E j \in 1..Len(sel_in.mImp) :
                         sel_out[i].key = sel_in.mImp[j].model_type \o <<"-", "m">>
                   \/ \E j \in 1..Len(sel_in.rImp) :
                         sel_out[i].key = sel_in.rImp[j].model_type \o <<"-", "r">>
                /\ \A j \in 1..Len(sel_out) : i # j => sel_out[i].key # sel_out[j].key

\* The median file lists lr:0,1 and an empty selection for sv, the regression
\* file rf:1,0 and lr:10.
C13_Witness ==
    /\ sel_pc = "done"
    /\ Len(sel_in.mImp) = 2
    /\ Len(sel_in.rImp) = 2
    /\ DictKeys(sel_out) = << <<"l", "r", "-", "m">>, <<"s", "v", "-", "m">>,
                              <<"r", "f", "-", "r">>, <<"l", "r", "-", "r">> >>
    /\ DictGet(sel_out, <<"s", "v", "-", "m">>) = <<0>>
    /\ DictGet(sel_out, <<"l", "r", "-", "m">>) = <<0, 1>>
    /\ DictGet(sel_out, <<"r", "f", "-", "r">>) = <<1, 0>>
    /\ DictGet(sel_out, <<"l", "r", "-", "r">>) = <<10>>

\* ------------------------------------------------------------------------
\* Claims about run_feature_selection
\* ------------------------------------------------------------------------
\* The keys of a dict, as a set.
KeySet(d) == {d[i].key : i \in 1..Len(d)}

\* C11: the tasks of the fan-outs share no file: distinct keys have distinct
\* output paths in each dict, no median path is a regression path, every two
\* tasks submitted have distinct paths, and under every interleaving no path
\* is written by two tasks.
C11_NoFileWrittenByTwoTasks ==
    /\ \A k1, k2 \in KeySet(fs_loc.mImp_out_files_dict) :
          /\ k1 # k2 => /\ DictGet(fs_loc.mImp_out_files_dict, k1) #
                              DictGet(fs_loc.mImp_out_files_dict, k2)
                        /\ DictGet(fs_loc.rImp_out_files_dict, k1) #
                              DictGet(fs_loc.rImp_out_files_dict, k2)
          /\ DictGet(fs_loc.mImp_out_files_dict, k1) # DictGet(fs_loc.rImp_out_files_dict, k2)
    /\ \A i, j \in 1..Len(fs_submitted) :
          i # j => fs_submitted[i].out_file # fs_submitted[j].out_file
    /\ \A w1, w2 \in fs_written : w1.path = w2.path => w1 = w2
    /\ \A w \in fs_written : \A task \in fs_running : w.path # task.out_file

\* In the regression fan-out one task has written and another is still
\* running, after both tasks of the median fan-out wrote.
C11_Witness ==
    /\ fs_pc = "rImp"
    /\ Cardinality(fs_written) = 3
    /\ Cardinality(fs_running) = 1
    /\ \E w \in fs_written : w.fanout = "rImp"

\* The elements of a list, as a set.
Elements(lst) == {lst[i] : i \in 1..Len(lst)}

\* The inverse lists exist: the loop that builds them has finished.
InverseBuilt == fs_loc.inverse_feature_samples # <<>>

\* The inverse list of model_key in one dict is the 'full' list of its
\* target without the rows of the fold, in order; for a 'full' key it is the
\* 'full' list.
IsInverseOf(inverse, samples, model_key) ==
    LET full == DictGet(samples, Split(model_key, "_")[1] \o <<"_", "f", "u", "l", "l">>)
        fold == DictGet(samples, model_key)
    IN IF model_key = Split(model_key, "_")[1] \o <<"_", "f", "u", "l", "l">>
       THEN inverse = full
       ELSE /\ inverse = SelectSeq(full, LAMBDA x : x \notin Elements(fold))
            /\ Elements(inverse) \cap Elements(fold) = {}
            /\ Elements(inverse) \cup Elements(fold) = Elements(full)

\* C15: for every non-full key (t, f) the inverse feature-sample list is the
\* 'full' feature-row list of t with the rows of fold f removed, order
\* preserved, and the inverse target-sample list is the same in target-row
\* space; inverse and fold are disjoint and together make up 'full'; for a
\* 'full' key the inverse list is the 'full' list.
C15_InverseIsFullWithoutFold ==
    InverseBuilt
       => /\ DictKeys(fs_loc.inverse_feature_samples) = DictKeys(fs_loc.target_samples)
          /\ DictKeys(fs_loc.inverse_target_samples) = DictKeys(fs_loc.target_samples)
          /\ \A model_key \in KeySet(fs_loc.target_samples) :
                /\ IsInverseOf(DictGet(fs_loc.inverse_feature_samples, model_key),
                               fs_loc.feature_samples, model_key)
                /\ IsInverseOf(DictGet(fs_loc.inverse_target_samples, model_key),
                               fs_loc.target_samples, model_key)

\* Target 1 has rows 0..3: the inverse of its fold 1 (row 1) is <<0, 2, 3>>,
\* the inverse of its empty fold 4 is the 'full' list.
C15_Witness ==
    /\ InverseBuilt
    /\ DictHas(fs_loc.inverse_feature_samples, <<"1", "_", "1">>)
    /\ DictGet(fs_loc.feature_samples, <<"1", "_", "1">>) = <<1>>
    /\ DictGet(fs_loc.inverse_feature_samples, <<"1", "_", "1">>) = <<0, 2, 3>>
    /\ DictGet(fs_loc.inverse_target_samples, <<"1", "_", "1">>) = <<0, 2, 3>>
    /\ DictGet(fs_loc.inverse_feature_samples, <<"1", "_", "4">>) = <<0, 1, 2, 3>>
    /\ DictGet(fs_loc.inverse_feature_samples, <<"1", "_", "f", "u", "l", "l">>) = <<0, 1, 2, 3>>

\* run_feature_selection is over: it returned or an exception left it.
FsTerminated == fs_pc \in {"done", "raised"}

\* The keys of the tasks submitted in one fan-out, in order.
SubmittedKeys(fanout) ==
    LET tasks == SelectSeq(fs_submitted, LAMBDA task : task.fanout = fanout)
    IN [i \in 1..Len(tasks) |-> tasks[i].key]

\* The 'full' keys of the targets that have a 'full' record in a file.
FullKeysOfFile(file) ==
    LET targets == FullTargetsOf(file, 1)
    IN [i \in 1..Len(targets) |-> targets[i] \o <<"_", "f", "u", "l", "l">>]

\* C16: on the default path only 'full' keys are processed, whatever fold
\* records the sample-index files contain: run_feature_selection submits
\* exactly one task per target that has a 'full' record in each of its two
\* fan-outs and none for a fold key, and run_three_model_training iterates
\* only over 'full' keys.
C16_OnlyFullKeysProcessed ==
    /\ FsTerminated
          => /\ SubmittedKeys("mImp") = FullKeysOfFile(fs_in.target_samples_file)
             /\ SubmittedKeys("rImp") = FullKeysOfFile(fs_in.target_samples_file)
    /\ trn_pc \in {"loop", "done", "raised"}
          => /\ trn_loc.full_keys = FullKeysOfFile(trn_in.target_samples_file)
             /\ key_idx <= Len(trn_loc.full_keys)
             /\ \A i \in 1..Len(ModelTypeRows) :
                   ModelTypeRows[i].id \o <<"_", "f", "u", "l", "l">> = trn_loc.full_keys[i]

====
